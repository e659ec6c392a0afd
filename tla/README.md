# A TLA+ model of haybale

haybale executes a function of an LLVM project symbolically. An
`ExecutionManager` is an iterator: each call of `next()` runs one path of the
function to its end and answers with its result, an error, or `None` when there
are no more paths. This project models how paths are explored, what the engine
does on a path, what its instructions compute, the data structures of a
`State`, and the two functions of the crate that consume the paths. TLC checks
the models on small instances. TLAPS proves, for all programs and sizes, that
the engine explores every path once, unwinds its callstack and keeps its types,
that the two consumers answer rightly, that globals keep their contents, and the facts on
which allocation, local variables, the linking of names and saturating
arithmetic rest.

Paths in this text are relative to the crate, `src/src/` in `PROJECT.json`.

## The system and its parts

| Part of haybale | Code | Modules | Status |
|---|---|---|---|
| Backtracking points, solver levels, forks | `state.rs`, `symex.rs` | `Solver`, `PathExploration`, `PathIterator` | modelled, proved |
| `ExecutionManager`: blocks, terminators, calls, invokes, hooks, exceptions, errors | `symex.rs`, `return_value.rs`, `error.rs`, `hooks/exceptions.rs` | `ExecutionManager` and the modules above it | control modelled and proved, data abstracted |
| Instructions that compute values, constant expressions | `symex.rs`, `state.rs` | `Constants`, `Instructions`, `Meanings`, `Values`, `InstructionsRefinement` | modelled except for floating point |
| Arithmetic intrinsics | `hooks/intrinsics.rs`, `backend.rs` | `Arithmetic`, `Instructions` | modelled, saturation proved |
| Layout of types, lookup of struct types | `layout.rs`, `project.rs` | `Layout` | modelled except for floating point |
| `find_zero_of_func`, `get_possible_return_values_of_func` | `lib.rs` | `Library` | modelled, proved |
| Local variables and recursion | `varmap.rs`, `double_keyed_map.rs`, `state.rs` | `VarMap`, `Maps`, `Locals` | modelled, proved |
| Allocator, `malloc`, `calloc`, `realloc`, `alloca` and their hooks | `alloc.rs`, `alloc_utils.rs`, `hooks/allocation.rs`, `hooks/exceptions.rs`, `symex.rs` | `Alloc`, `AllocUtils` | modelled, proved |
| Globals, functions, aliases, lazy initialisation | `global_allocations.rs`, `state.rs` | `GlobalAllocations`, `Linking`, `Globals` | modelled, proved |
| Function hooks and resolution of calls | `function_hooks.rs`, `symex.rs` | `FunctionHooks`, `Linking`, `Globals` | modelled, resolution proved |
| The two memories | `memory.rs`, `simple_memory.rs` | `BitVectors`, `Memory`, `SimpleMemory`, `ByteMemory`, `StateMemory` | accesses modelled |
| Solver queries | `solver_utils.rs`, `state.rs` | `SolverUtils`, `StateMemory` | modelled |
| Watchpoints | `watchpoints.rs`, `state.rs` | `Watchpoints`, `StateMemory` | modelled |
| `memset`, `memcpy` | `hook_utils.rs`, `hooks/intrinsics.rs` | `StateMemory` | modelled |
| Backend traits over Boolector | `backend.rs` | `Arithmetic` has the default methods; `Solver` and `BitVectors` what the engine uses of the rest | in part, Boolector is external |
| Demangling, configuration records, callbacks, test helpers | `demangling.rs`, `config.rs`, `callbacks.rs`, `test_utils.rs` | none | text or plain records |

How they interact: `symex.rs` walks through the instructions. It reads and
writes variables through `VarMap`, memory through `Memory`, and asks
`solver_utils` about satisfiability. At a fork it saves a backtracking point
in `State` and pushes a solver level. At the end of a path it answers; the next
call of `next()` reverts to the last point, which pops the level. Everything
that a point does not save survives into the next path: the flags of the
globals, the allocator, the function-pointer cache, watchpoints and hooks.

## Abstractions used throughout

* **Inputs.** A symbolic variable has a value for each *input*. A bitvector is
  the function from inputs to values that it denotes, a constraint is the set
  of inputs that satisfy it, and the solver is a stack of such sets (module
  `Solver`). `sat()` asks whether the top set is empty. This is exact on a
  finite set of inputs, and it is all that the engine uses of Boolector.
* **Values.** `ExecutionManager` has `NumVals` values, which are also the
  addresses, with 0 for NULL. `StateMemory` has real bits: bytes of 2 bits,
  cells of 2 bytes and 4 cells, so that alignment, cell crossing and
  wrap-around all occur. `Instructions` has bytes of 2 bits and pointers of 4,
  so that 16 bytes are all of its memory. `Alloc` keeps the code's own numbers (8-byte cells,
  64-bit boundaries, the start at 0x1000_0000).
* **History variables** (`saved`, `yielded`, `excluded`, `allocs`, `blocks`,
  `writes`, `env`, `named`, `referenced`, `stored`, `called`, `phantoms`, `ran`) record what
  happened, for the properties. No guard of an action reads them except to
  apply a bound.
* **Bounds** are constants with `Max` in their names, and the lengths of the
  scenarios. Each is named in the module that uses it.

## Modules

### Path exploration

`PathIterator` is the promise to the consumer. Every input is *remaining*,
*yielded* on exactly one path, or *excluded* by an assumption of the program,
and `None` is answered only when nothing remains.

`PathExploration` is the search that keeps this promise. Its state is
`solver`, `backtrack_points`, `path` and the consumer's view (`mode`). Its
actions are `RecordPathEntry`, `Assume`, `CondBr` and `Switch` (forks that save
a point and push a level for every feasible alternative but one), `AssertFinal`
(a consumer constrains the path that it was just given), `Yield`,
`Backtrack` (pop the level, truncate the path, assert the point's constraint)
and `Exhaust`. Program data is left out; any sequence of forks may happen.

`Library` puts the consumers of `lib.rs` on top of it: an action for each branch
of their loops, with the constraints that they add to the state between two
calls of `next()`. The function under analysis is any function from inputs to
outcomes (a returned or thrown value, an abort, an error, the loop bound); how
its paths divide the inputs is left to `PathExploration`. Each query of the
consumers may fail, which `find_zero_of_func` reports as an error and
`get_possible_return_values_of_func` does not survive. A third consumer does
whatever `mut_state()` and `next()` allow.

### The engine

`ExecutionManager` has the state of `State` and `ExecutionManager` (location,
callstack, variables, memory, path, points, function-pointer cache). The
engine is recursive Rust code: `symex_call` calls
`symex_from_cur_loc_through_end_of_function`, which on a dead path calls
`backtrack_and_continue`, which starts another path *inside* the same call. The variable `native` is the stack of those Rust
frames that still have work to do after the call they wait for, and `ctl` says
which procedure runs or with what it returns. One action stands for each
instruction handler, for each way a call can be resolved (`CallUnresolved`,
`CallHooked`, `CallIgnored`, `CallUnknown`, `CallEntered`, `CallMalformed`), for
each way it can come back (`CallReturns`, `InvokeReturns`, `CalleeFails`,
`CalleeFinishedElsewhere`, `UnexpectedCallsite`), and for each round of
`symex_from_cur_loc` over the saved callstack (`FromCurLocEnds`,
`FromCurLocReturns`, `UnwindCallsite`, `CatchEnter`, `LandingPad`).
`NextCalled` and `NextReturns` are the two ends of `next()`.

`Programs` is a notation for programs: functions of blocks of instructions.
`ExecutionSoundness` has an interpreter of the same programs for one input,
without solver, backtracking or shared variable map, and compares the engine's
answers with it. `ExecutionRefinement` maps the engine's state to
`PathExploration`, and `Departs` names the four steps for which that fails. The
programs are four families: `Branches` and `Calls` in
`MCPrograms`, `Exceptions` and `Unknowns` in `MCExceptions`.

### The instructions

The engine has no structured values: a struct or a vector is one flat
bitvector, and each handler slices and concatenates. `Layout` gives the places
of the elements (`size`, `get_offset_bytes`, and the definitions of struct types
that are opaque in some module). `Arithmetic` has the arithmetic of numbers of
a given width with the overflow predicates and the saturating methods of the
backend. `Constants` has the same on bitvectors, and `const_to_bv`.
`Instructions` is the state machine: an action executes one instruction on the
local variables and on a memory, with the error paths of its handler.

`Meanings` and `Values` are the counterpart without bitvectors: integers, nested
sequences, and paths into them. `InstructionsRefinement` decodes the state of
`Instructions` into one of `Values`; `ValuesSpec` says that every step is the
one that LLVM prescribes. Left open are a division by 0, a shift past the
width, an index that is negative in fewer bits than a pointer, an access that
no element of the variable fits, and a saturating subtraction of the least
number.

### The parts of a State

* `VarMap` holds versions and active bitvectors of variables. `Locals` adds
  the callstack whose frames hold the caller's bitvectors (`PushCallsite`,
  `PopCallsite`), with assignments, new bitvectors and overwrites in between.
* `Alloc` is the bump allocator. `AllocUtils` adds the hooks for `malloc`,
  `calloc`, `realloc` and `__cxa_allocate_exception` with their checks of types,
  and `alloca`, with constant and symbolic sizes. `realloc` also gets addresses
  without an allocation and symbolic ones. That the solver fails while contents
  are zeroed or copied is left to `StateMemory`.
* `GlobalAllocations` and `FunctionHooks` are operators on the two tables.
  `Linking` fills them: `State::new` allocates one definition or hook per step;
  its operators `ResolveName` and `ResolvePointer` are what calls use afterwards.
  `Globals` adds a path: code refers to names, stores, calls by name or through
  a pointer, crosses to functions of other modules, adds and removes hooks,
  fails, saves a point and reverts to it. Each of its steps is a step of
  `Linking` or leaves the variables of `Linking` alone. `const_to_bv` is modelled
  in small steps: `evaluating` is the stack of its activations, the operand's
  first and then one for each initializer that is being evaluated.
  `EvaluateConstant` takes the next reference of the innermost one, and for a
  global without its flag sets the flag and opens an activation;
  `WriteInitializer` writes a complete initializer and returns; `Execute` is the
  rest of the instruction.
* `Memory` and `SimpleMemory` are the two implementations of reads and writes.
  `SolverUtils` has the searches, each a chain of solver calls any of which may
  fail (`left` counts the calls that still succeed). `Watchpoints` is the table
  of watchpoints. `StateMemory` combines them: an action per kind of operation,
  with null checks, the choice of a length and the loops over bytes.
  `ByteMemory` is the abstract memory, a string of bits for each input.

## Runs

Times are for two workers on one machine.

| Run | States | Question |
|---|---|---|
| `MCPathExploration` | 159 427, 80 s | Does any sequence of forks, reverts and assertions of a consumer keep points, levels and paths in step (`LevelsMatch`, `SavedIntact`, `PathsDisjoint`, `TypeOK`), is the search the promised iterator (`IteratorSpec`), and are the answers of `find_zero_of_func` (`ZeroRight`) and of `get_possible_return_values_of_func` (`ValuesRight`) right? |
| `MCPrograms` | 96 229, 65 s | In programs with branches, switches, loops, memory, assumptions and errors in one function, and with calls, recursion and function pointers between several: does each answer describe every input of its path (`ResultSound`, `ErrorSound`), is the log what the program executes (`PathFaithful`), are the engine's own panics not reached (`NoPanic`), does the engine implement `PathExploration` (`ExplorationSpec`), and does it come to `None` (`EventuallyExhausted`)? |
| `MCExceptions` | 17 419, 30 s | Exceptions thrown in hooks and callees, rethrown, caught and resumed, calls with unknown results, and paths that die inside a call: results, errors, the log (`CaughtPathFaithful`) and the callstack (`CallstackUnwound`); no input is reported twice (`ReportedOnce`) and none is lost (`ExhaustiveAtNone`). |
| `MCInstructions` | 50 842, 75 s | Do the flat bitvectors hold the values that LLVM prescribes, after any two of the instructions, including where an instruction must fail (`ValuesSpec`)? |
| `MCLocals` | 2 382 774, 2 min | Does each activation see its own variables (`LocalsVisible`), can they always be restored (`RestorePossible`), and are the names of bitvectors unique (`NamesUnique`)? |
| `MCAllocUtils` | 234 969, 15 s | Are allocations disjoint (`Disjoint`), do `malloc`, `calloc` and `alloca` provide what they were asked for (`MallocFits`), do two allocas never share an address (`AllocasApart`), and is everything written inside an allocation (`WritesInside`)? |
| `MCGlobals` | 280 150, 50 s | Does the right definition prevail in every order (`StrongPrevails`), do pointers and names lead to the same function (`PointersAgreeWithNames`, `PointerCallsEnter`), and do globals hold what their initializers mean (`ContentsMeant`) and keep what was stored (`StoresSurvive`)? |
| `MCStateMemory` | 27 194, 50 s | Is the memory a string of bits (`ByteMemorySpec`), do both implementations agree (`SimpleAgrees`), are queries exact (`QueriesExact`) and without lasting effect (`SolverRestored`), and what do null detection, the length policy and watchpoints guarantee (`NullUntouched`, `LengthPolicy`, `WatchpointsExact`)? |

Four runs show a disagreement between the code and its documentation; see
below.

### Why the bounds are enough

* `MCPathExploration`: three inputs allow three pending paths at once, with
  points at different depths, and a switch of three ways. Path length matters
  only for truncation, where two entries suffice. The functions return, throw,
  abort and fail on different inputs, with a repeated and a distinct value; `n`
  is 0, below and at the number of values; thrown values are looked at not at
  all, at the width of the return value and at another one. The proofs cover
  all sizes.
* `MCPrograms`, `MCExceptions`: the programs are
  families, products of alternatives for each block. They contain what the
  engine treats specially: a loop that ends at the bound and one that ends
  before it, forks before, inside and after a callee, a path that dies in each
  of these places with points above and below it, recursion with the same
  variable names, a call with too few arguments, of a plain and of a variadic
  function, pointers with one, two and no targets, a cache entry from
  another path. `MaxSteps` exceeds the longest concrete run, so that it cuts nothing
  off. Paths are not bounded.
* `MCInstructions`: every kind of instruction and of constant, on integers of
  three widths, vectors, structs with elements that are not whole bytes, and a
  struct in memory with an array of structs; two in a row, so that the first
  makes the operands, the pointer or the memory that the second works on.
* `MCLocals`: two functions that call each other and themselves three deep,
  with three versions of a name, give a caller and a callee of the same
  function with another function in between.
* `MCAllocUtils`: the sizes lie on both sides of a byte and of a cell, with 0
  and an empty struct for `alloca`; three allocations give one before, at and after a skipped cell remainder.
* `MCGlobals`: every combination of linkages of a variable and a function in
  two modules; a cycle of initializers, an alias and an initializer that fails,
  with one backtracking point; two hooks for colliding demangled names.
* `MCStateMemory`: every width class (part of a byte, a byte, part of a cell, a
  cell, several cells) at every address, constant and symbolic; copies with
  constant and symbolic lengths between ranges that are apart and that overlap
  in either direction; the queries
  run over all pairs of 3-bit values and over 5-bit values with words of 3
  bits, on a satisfiable and an unsatisfiable path; the solver fails at the
  first, second, fourth or ninth call, or never.

No symmetry is used: values are ordered, and functions differ in their bodies.

### Deadlock

Deadlock is checked for exploration, for the engine and for the instructions
(`MCPathExploration`, `MCPrograms`, `MCExceptions`, `MCInstructions`,
`CaughtBelow`, `SsubSaturation`): a consumer may always ask again. What is meant
to end has a step of its own that changes nothing: a panic (`Panicked`), the
answer of a consumer (`Over`), the end of the instructions (`Ended`). It is off
where the bound ends the history of operations (`MCLocals`, `MCAllocUtils`,
`MCGlobals`, `MCStateMemory`, `OverlapSmeared`, `GlobalsForgotten`).

### Fairness

`Spec` of `ExecutionManager` assumes `WF_vars(Step)`: the engine is one thread
of straight-line Rust code and does not stop between two steps. `ConsumedSpec`
adds `WF_vars(NextCalled)`: a consumer that asks until `None`, like the loops in
`lib.rs`. `EventuallyExhausted` is claimed only of `ConsumedSpec`. No fairness
is assumed of any choice; the engine is deterministic for a given program.

`EventuallyExhausted` also needs that the program cannot run forever, which the
loop bound grants only to some programs. `loop_bound` is documented as the
"Maximum number of times to execute any given line of LLVM IR"
(`config.rs:25-30`), but what the code counts are the versions of a variable
(`varmap.rs:150`). A loop or
a recursion that assigns no variable is never cut off. Every loop in the
scenarios assigns one in each round, and the property is about such programs.

## Theorems

All are proved for every value of the constants: inputs, programs,
configurations, functions, sizes. None of the bounds is needed for a proof,
except to have a type. TLC evaluates the assumptions in the runs, and has
checked the inductive invariants on their instances. A leaf of a proof names the
prover that does it, Zenon for logic and sets, SMT for arithmetic and sequences.

**`PathExplorationProofs`.** The inductive invariant `IInv` is the conjunction
of `TypeOK`, `LevelsMatch`, `PathsDisjoint`, `InputsAccountedFor`,
`PendingFeasible` and `SavedIntact`. None of the last five is inductive alone.
`InputsAccountedFor` needs `PathsDisjoint`, so that yielding the current path
leaves the pending ones alone. `PathsDisjoint` needs the nesting of levels in
`LevelsMatch`, so that a point saved deeper stays inside its level.
`Backtrack` needs `SavedIntact`, so that popping a level gives the inputs that
the point stands for. The lemma `ForkFacts` says what the stacks are after a
fork with any number of alternatives, `ForkKeeps` that it keeps `IInv`, and
there is one lemma for each action. `Invariance` is `Spec => []IInv`.
From it follow `TypeCorrect`, `LevelsAlwaysMatch`, `PathsAlwaysDisjoint`,
`NoInputLost`, `PendingAlwaysFeasible`, `SavedAlwaysIntact`, the action property
`RevertAlwaysRestores`, and `ImplementsIterator`: every step is a step of
`PathIterator` or changes nothing it sees. The assertions of a consumer are
steps like any other: `AssertInKeeps` is the part that they share with the
assumptions of a program. Assumption: a switch is a sequence
of sets of inputs.

**`StateProofs`.** The first part is about `Alloc`. `IInv` is `TypeOK`,
`CellRule`, `Disjoint`, `SizeRecorded` and `cursor > 0`. A new allocation starts
at or after the cursor and the cursor is past all others, which gives
`NeverOverlaps`; arithmetic modulo the cell size gives `CellsRespected`.
`SizesRemembered` needs `Disjoint`: an allocation of at least one bit has an
address of its own. Assumption: sizes are natural numbers (the model has no
overflow of the 64-bit cursor).

The second part is about `AllocUtils`. `UInv` is `IInv`, the types of the
histories, `BlocksBacked` (behind each block there is an allocation at its
address that is large enough), `WritesInside` and `AllocasApart`.
`MallocFits` is not inductive: an allocation of 0 bits shares its address with
the next one, which replaces the recorded size. `BlocksBacked` names the
allocation behind a block, for which `SizeRecorded` then gives the record; the
one behind an alloca is not empty, so that `Disjoint` separates it from those
that come later. There is a lemma for each of the functions; `AllocateReturns`
says what all of them get from `alloc`. Theorems: `BlocksHold` (`MallocFits`),
`WritesStayInside`, `AllocasHaveTheirOwn`, `UtilsNeverOverlap`.

The third part is about `Arithmetic`. For every width, given as `h`, the least number whose
sign bit is set: the overflow predicates say whether the exact result fits
(`UnsignedOverflow`, `SignedOverflow`), and `uadds`, `usubs` and `sadds` give
the exact result limited to the range (`UAddSaturates`, `USubSaturates`,
`SAddSaturates`). `ssubs` does so unless it subtracts the least number
(`SSubSaturates`), and then never (`SSubOfLeast`).

The fourth part is about `Locals`. `Lookups` adds three facts to the properties: every frame's
saved bitvectors agree with what its activation should see (`FramesKeep`), all
versions are below the bound until the path ends (`VersionsFit`), and a name
ever created has a version number at most the current one (`NamesCounted`).
The key step is that a callee may overwrite exactly the names of its own
function, which are the ones a frame saves. Theorems: `LocalsTypeCorrect`,
`ActivationsSeparate`, `RestoreNeverPanics`, `VersionedNamesUnique`.
Assumption: the loop bound is at least 1. The code computes
`max_versions_of_name - 1` and cannot work with 0.

**`LibraryProofs`.** `LibraryExplores` is `LibSpec => Spec`: a consumer only
takes steps of `PathExploration`, so that all of its theorems hold while a
consumer runs. `ZInv` says of `find_zero_of_func` that no path it has left behind
returns zero for a possible input, and that null pointers are excluded from the
start. With `InputsAccountedFor` and `Exhaust` it gives `FindZeroIsRight`:
`Some` holds an input for which the function returns zero, `None` means that
there is none, for every function and every set of inputs.

`VInv` is the counterpart for `get_possible_return_values_of_func`. Every input of
a path that is left behind has its outcome among the candidates (`Covered`); a
candidate is the outcome of a reported input or a phantom; and between two calls
there are at most `n` candidates. The difficult step is a path that returns
(`NewValuesKeeps`). Known values are ruled out first, so that the inputs left
have new values, and the inputs ruled out have known ones. If there are at most
`n` new values they are all found, and otherwise `n + 1` of them, which is enough
to stop. That the loop then stops is a matter of counting:
`AsManyCandidates` says that as many values of a kind give as many candidates.
`PossibleReturnValuesAreRight` is `ValuesRight`.

Assumptions: there are finitely many inputs; those without null pointers are
among them; an outcome is one of the five kinds; `n` is a natural number.

**`ExecutionProofs`.** The engine, for every program that `WellFormed` accepts:
labels lead to blocks, the cases of a switch differ, instructions have as many
operands as they should, hooks are among those that are modelled, and the loop
bound is at least 1. The first invariant, `Base`, keeps together what `State` spreads over
several fields. The location and the callsites are calls or invokes of the
program, every backtracking point has a solver level and a length at which to
truncate the path, and the native stack has the shape that `ctl` calls for.
There is one lemma for each action. `BaseInvariance` is `Spec => []Base`; it
needs no hypothesis.

The second part relates the two stacks. symex_call and symex_invoke push a
callsite and expect to pop it, but when a path dies inside them, another one is
taken up by symex_from_cur_loc, which replaces the callstack by the saved one.
`Aligned` says that the last native frames are those of the last callsites, and
that the callsites before these belong to a symex_from_cur_loc below. `Unwinding` adds
what holds at the ends of a path, and `Kept` that no frame waits for a callsite
that was taken away. Theorems:

* `EngineUnwinds`: `Spec /\ [][~CatchesBelow]_vars => []CallstackUnwound`;
* `EngineNeverPanics`: `Spec /\ [][~CatchesBelow]_vars /\ [][~AbortsBelow]_vars
  => []NoPanic`.

The two steps left out are those where the code really fails (see
`CaughtBelow` and the first row of the table below). The theorems say that these are the
only ones.

**`ExecutionTypingProofs`.** `EngineTyped` is
`Spec /\ []OperandsTyped /\ []HookTyped => []TypeOK`. `OperandsTyped` is what LLVM's
rules of dominance and typing promise of the next instruction: its operands have
been assigned, and addresses are values. `HookTyped` is what a signature promises:
a call that is answered by the hook of `llvm.assume` or `__cxa_throw` has the
argument that the hook looks at. Both are conjuncts of `TypeOK`, so that TLC
checks them of the programs of the runs; all the rest of `TypeOK` is up to haybale.
The inductive invariant, `Typed`, is stronger in three ways. It says of what is
saved, the variables in a backtracking point and the bitvectors in a callsite,
that it has the types of what it was saved from. It tells a path that goes on,
where every version is below the loop bound, from one that ended because a
version has reached it (`Alive`): a variable assigned after that would exceed
the bound that `TypeOK` states. And the result on its way to a caller, or the
pointer on its way to a landing pad, is a bitvector (`TypedCtl`). There is
one lemma for each action. The arguments of a call are assigned one after the
other by a recursive function; that they keep the types is an induction on their
number, stated with the set of the numbers for which it holds and derived from
the well-foundedness of the natural numbers.

**`ExecutionExplorationProofs`, `ExecutionRefinementProofs`.** Each step of the
engine is a step of `PathExploration`, or leaves what it sees alone. `Answers` is the invariant on
top of `Base`: a path is given up only when its constraints cannot be met, and
`None` is on its way only when no backtracking point is left. There is one lemma
for each action (`ForkExplores`, `CondBrExplores`, `SwitchExplores`,
`BacktrackExplores`, and so on); the branches of a program and the theorems are in
the second module, the rest in the first. The one for a switch needs that the cases exclude
each other, which is where `WellFormed` is used, and that there are at most as
many feasible ways as inputs. The one for a function pointer needs that a
pointer without a possible address is on an impossible path, which takes the
least element of a set of numbers. Theorems, each under
`Spec /\ []OperandsTyped /\ [][~Departs]_vars`:

* `EngineExplores`: `ExplorationSpec`;
* `EngineReportsOnce`: `ReportedOnce`, and `EngineExhausts`: `ExhaustiveAtNone`, from
  the theorem `NoInputLost` about `PathExploration`;
* `EngineIterates`: the engine is the iterator `PathIterator`.

`Departs` is the disjunction of the four steps
that lose or repeat a path:

| Step | Code | Row below |
|---|---|---|
| `DropsAtBound` | the loop bound while a result is assigned in unwinding | `symex.rs:376` |
| `InvokeGivesUp` | an invoke answered by the default hook | `symex.rs:1957` |
| `NoneBecomesUnsat` | a callee without a path answers `Error::Unsat` | `symex.rs:1876` |
| `SplitsAtNull` | the report of a null pointer with `SplitPath` | `state.rs:1370` |

Without them, no program makes the engine lose a path or report one twice. None
of them happens in `MCPrograms` and `MCExceptions`, whose scenarios avoid the
rows named; TLC finds each of them in the scenarios of its row.
Assumptions: the values are the numbers below `NumVals`, which is positive, and
there are finitely many inputs.

**`GlobalsProofs`.** The first part is about `Linking`. `LInv` says what the five maps of `GlobalAllocations` hold
after each round of the loops in `State::new`: private names are exactly those of
the private definitions reached (`PrivateNames`), a public name stands for a
definition of that name and for the strong one if it was reached
(`PublicNames`), and the way back from an address leads to the same name or
hook (`Addresses`). `StrongPrevails` alone is not inductive: it is silent until
all definitions were reached. Theorems: `StrongAlwaysPrevails` and
`PointersAlwaysAgree`, for any number of modules, definitions and hooks in any
order, and however hooks are added and removed later. Assumption: a project's
definitions are a sequence, each with one of five classes of linkage,
the last of which ends the process.

The second part is about a path that uses globals, for every project. `GlobalsLink`
says that its steps are steps of `Linking`, so that `LInv` holds on it. `GInv`
says what the path has made of the names: a pointer is nothing, a hook's address
or the address of a definition that its name stands for (`ValidPtr`); memory, and
the memory in each backtracking point, holds in an initialised global what the
initializer means in one module (`Contents`), and in a global that was stored to
what was stored, with its flag set (`Kept`); and the values in each activation
of `const_to_bv` are the meanings of its constants in the current module
(`ActivationOK`, `Inside`). The properties need all of it. `StoresSurvive` needs
that a global whose initializer is still being evaluated was not stored to, that
its flag is set from the beginning of the evaluation, and that reverting resets
no flag. `ContentsMeant` needs that the current module does not change while
initializers nest. `PointerCallsEnter` needs `ValidPtr` for whatever a global
holds, since a pointer may come out of any of them. `GlobalsInvariance` is
`Spec => [](LInv /\ GInv)`. From it follow `PointerCallsAlwaysEnter`,
`ContentsAlwaysMeant` and `StoresAlwaysSurvive`. Assumptions: those of `Linking`;
initializers are sequences; what programs store is distinct from an
uninitialised global. What a chain of aliases leads to (`Unaliased`) is left
open: it is the same before and after a step, which is all that is used.

## Only model-checked

* Liveness (`EventuallyExhausted`), which rests on fairness.
* The soundness of the engine against the interpreter (`ResultSound`,
  `ErrorSound`, `PathFaithful`, `CaughtPathFaithful`), and `ValuesSpec`. The
  interpreter, types and constants are recursive operators, which the proof
  system does not support.
* `OperandsTyped` and `HookTyped`, on which theorems about the engine rest. They
  are promises of LLVM and not of haybale.
* Memory and solver queries: the loops over bytes and the bisections are
  recursive operators.

## Disagreements between code and documentation

Four are runs of their own.

* **`CaughtBelow`** (`symex.rs:344`). While the saved callstack is unwound, an
  exception that an invoke catches ends exploration with the result of the
  catching function. Its callers are not continued.
* **`OverlapSmeared`** (`hook_utils.rs:166`). A `memcpy` or `memmove` whose
  length stays symbolic copies one byte after the other, in ascending order.
  Where `dest` is inside the range that starts at `src`, bytes that are still to
  be copied are overwritten first. The comments say "`src` and `dest` may overlap."
  (`hook_utils.rs:114`) and "Our memcpy implementation also works for memmove"
  (`symex.rs:1390`). A length that is or becomes a constant is copied at once.
* **`GlobalsForgotten`** (`state.rs:1664`). Reverting restores the memory but
  not the flags of the globals, so that a global first referred to on an
  abandoned path stays uninitialised.
* **`SsubSaturation`** (`backend.rs:308`). Saturating subtraction adds the
  negation of the second operand. The least number is its own negation, so that
  subtracting it is not limited as the comment says.

More were met while modelling. Each of these is reproduced by checking the
named invariant with the named scenarios.

| Code | What happens | Invariant | Scenarios or run |
|---|---|---|---|
| `symex.rs:356` | A path that dies in a call goes on inside that call; if the next path aborts, callsites are left behind and the waiting call panics. | `NoPanic` | `MCExceptions` |
| `symex.rs:2103` | The predecessor for a phi is the last path entry but one, which after an invoke belongs to the callee. | `ErrorSound` | `MCPhiAfterInvoke` |
| `symex.rs:1957` | An invoke answered by the default hook does not go on at its return label. | `ExhaustiveAtNone` | `MCInvokeDefaultHook` |
| `state.rs:1370` | With `SplitPath`, the path that reports the null pointer is not constrained to NULL. | `ReportedOnce` | `MCSplitNull` |
| `symex.rs:1876` | `Error::Unsat` in an invoked function is reported in spite of `squash_unsats`. | `UnsatSquashed` | `MCInvokeImpossible` |
| `hooks/intrinsics.rs:171` | An assumption that no input satisfies does not end the path. | `ReportedPossible` | `MCAssumedAway` |
| `symex.rs:1270` | When a callee throws, the log holds the rest of the calling block. | `PathFaithful` | `MCRethrown` |
| `symex.rs:376` | The loop bound exceeded while a result is assigned during unwinding drops the path. | `ExhaustiveAtNone` | `MCBoundDropped`, with `Sym <- BoundSym` |
| `state.rs:906` | Names in an initializer are resolved in the module that refers to the global first ("The `Module` in which the `Name` appeared", `global_allocations.rs:368`). | `InitializerModule` | `MCGlobals` |
| `alloc_utils.rs:90` | `realloc` passes bytes where `State::allocate` takes bits ("at least the number of bytes given by the `Operand`", `alloc_utils.rs:66`). | `ReallocFits` | `MCAllocUtils` |
| `symex.rs:1345` | "things should still work without the first two lines": not for functions without a definition or with a hook added later. | `NamesAgreeWithPointers` | `MCGlobals` |

The scenarios are definitions of `MCExceptions`, used as in `CaughtBelow.cfg`.
The passing runs avoid these situations where an invariant would fail:
`MCExceptions` catches only in the top-level function, has no phi after an
invoke that ran a callee, and `CaughtPathFaithful` excepts rethrown
exceptions; `MCExceptions` does not claim `NoPanic`; the null checks of the
family `Branches` in `MCPrograms` are `None` and `Simple`.

Some are built into the statement of a property, which says where the code's
guarantee ends:

* `SolverRestored`: `min_possible_solution_for_bv_as_binary_str` has no push
  and pop around its constraints; the version for the maximum returns early
  between push and pop when there is no solution (`solver_utils.rs:505`); a
  solver error in the middle of a bisection leaves the levels pushed so far.
* `QueriesExact`: a constant has itself as its only solution even if the
  constraints are unsatisfiable.
* `ByteMemorySpec`: a copy reads all of its bytes before it writes one, except
  between overlapping ranges with a length that stays symbolic, the case of the
  run `OverlapSmeared`. With a symbolic length, a copy also touches one byte more
  than the largest length, without changing it. A large access that is not a whole number of bytes at an address
  that is not constant panics (`memory.rs:362`).
* `WatchpointsExact`: the last byte of an access is rounded down and may wrap
  (`watchpoints.rs:140`).
* `SimpleAgrees`: `SimpleMemory` clears the rest of a partly written byte.
* `PointerCallsEnter`: a private function of the calling module takes the place
  of a public one with the same name.
* `PointersAgreeWithNames`: a hook added after `State::new` has no address.
* `ValuesRight`: a constant, an abort or a thrown pointer on a path that no
  input takes is reported all the same (`phantoms`). Thrown values are compared
  at the width of the return value (`lib.rs:296`), which panics for another
  `thrown_size` as soon as two paths throw; the process also ends when a thrown
  value cannot be read or the solver fails (`lib.rs:259`, `lib.rs:291`). The width
  of the return type is asked for before the loop (`lib.rs:231`), which panics for
  a function that returns nothing, so that the branch for `ReturnVoid` is never
  reached.
* `ZeroRight`: the values of the parameters are asked for one at a time
  (`lib.rs:160`), in the belief that the solver finds the same solution each time.
* `ValuesSpec`: an index that is narrower than a pointer is extended with zeros
  (`symex.rs:789`), where LLVM takes it as signed.

Not covered by a model: the prefix `llvm.smul_with_overflow` in
`symex.rs:1480` is spelt differently from LLVM's, and `length_bytes as u32 * 8`
in `hook_utils.rs:148` overflows from 2^29 bytes on. A memset of 2^32 bytes or
more is an error (`hook_utils.rs:58`, `hook_utils.rs:68`), and one whose value is
narrower than a byte ends the process. Arithmetic of constant
vectors works on the flat bitvector, with carries between the elements.

## Not modelled

* Text: demangling, pretty-printing, messages, source locations, and the lookup
  of a function in a `Project` by its demangled name.
* The parsing of bitcode, and Boolector itself.
* Floating point, which the code does not support beyond the sizes of its
  types, and `SolutionValue`, a cast of a number to a width.
* Arithmetic of constant vectors (see above).
* Zero-initialised memories, and the change of solver in `fork`, which
  duplicates every bitvector and changes no value.
* Overflow of the allocator's cursor and of version numbers, and accesses of 0
  bits, for which there is no bitvector (the process ends there).
* The engine together with real bitvectors and memory. `ExecutionManager` has a
  few values and the data operations of `DataOp`; `Instructions` follows one
  input without control. A product of the two is out of TLC's reach, and they
  share only the local variables and the memory, which both modify one
  instruction at a time.

## What could follow

1. `State`: one module that composes locals, globals, allocator and memory
   under backtracking, to state which parts a revert brings back.
2. Proofs: that one cell access of `Memory` changes only its own bits; what
   reverting leaves of the flags of globals.
