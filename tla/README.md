# kaiforth in TLA+

Kaiforth is a Forth virtual machine in Rust: a text interpreter and compiler, a
bytecode interpreter (Tier 1), a trace optimizer, and a JIT for x86-64 whose
blocks are run as transactions. This directory specifies the parts that carry its
logic, model-checks them with TLC and proves their main properties with TLAPS.

## The system

One process, one thread: `main` reads a file or a line, gives it to
`Vm::interpret_loop`, and then calls `Vm::run_loop`. Everything else is called from
these two. There are no messages, locks or callbacks; what makes the system hard
is that every word may fail halfway, that errors and exceptions cut through nested
loops of the interpreter, and that state left behind by one word, line or run is
there for the next.

| component | source | state | operations | called by |
|---|---|---|---|---|
| Tier 1 interpreter | `vm/execution.rs`, `vm/stack.rs`, `vm/state.rs` | six stacks, `ip` | `step_tier1`, `execute_op`, `execute_word`, `unwind_to_handler` | run loop, text interpreter, itself (`EXECUTE`) |
| Data space | `vm/memory.rs` | `raw`, `here` | `read_*`, `write_*`, `allot` | `execute_op`, JIT blocks |
| Run loop | `lib.rs` | none of its own | `run_loop` | `main`, tests |
| Text interpreter and compiler | `lib.rs` | `compiling`, `control_stack`, the dictionary, the code buffer | `interpret_loop`, `handle_literal` | `main` |
| Dictionary | `system/system.rs` | entries, word lists, hidden flags, `latest_word` | `insert`, `lookup`, `set_hidden` | text interpreter, `Call` |
| Parser | `compiler/parser.rs` | the stack of input sources | `next_token` | text interpreter |
| REPL, file runner | `main.rs` | none of its own | `main` | - |
| JIT code generator | `jit/runtime.rs` | compiled blocks, poison marks | `compile_super`, `get_block`, `poison_block` | `synchronize_jit`, `step_ex` |
| JIT dispatch | `vm/execution.rs`, `jit/abi.rs` | context record, shadow stacks, journal | `step_jit`, `run_jit_guarded`, `rollback_state_full` | `step_ex` |
| Optimizer | `optimizer/*.rs` | pattern statistics, pending blocks | `observe_runtime_traces`, `penalize_pattern`, save and load | run loop, JIT dispatch |

What is hard in each, and what makes it correct:

- *Tier 1*: an instruction pops its operands one by one, then pushes its results
  one by one; any of these may fail. It must not touch the cells below its operands
  or anything outside the stack region. `Catch` records depths that are stale by
  the time a throw uses them; `execute_word` compares the length of the call stack
  with the one at its entry while the word it runs may call, throw and execute.
  Frames must return to the instruction after a call, loop parameters must stay in
  pairs, and a run must give control back.
- *Data space*: bounds checks on addresses cast from signed words, `,` with two
  checks of two different addresses, byte order.
- *Text compiler*: one untyped `control_stack` of addresses for `IF`, `BEGIN`, `DO`
  and the rest, an error path out of every word, flags that survive errors. Jumps
  must land inside the code, a finished definition must not change any more.
- *JIT*: a block is emitted in one pass and patched in a second: what every check,
  branch and trap pad is given must land on that check's or branch's own bytes. A
  block is a transaction that has to be undone when it traps; state is saved in arrays
  shorter than the stacks they shadow.
- *Optimizer*: scores that promote, penalties that block, bounds on the queues, a
  snapshot written in place.

The full list of hazards, each at its line, with the properties that cover it or
the reason none does, is in `PROJECT.json`.

## Modules

| module | models |
|---|---|
| `Vm` | Tier 1, data space, run loop, interpretation mode |
| `Compiler` (extends `Vm`) | the text interpreter and compiler, dictionary lookups |
| `JitLayout` | `compile_super`: the layout of a block and its fixups |
| `Contract` | the contracts of ops and sequences, folding, and the cutting of a trace into segments |
| `ContractRun` (extends `Vm`, `Contract`) | a sequence with a contract, run by the interpreter |
| `Optimizer` (extends `Contract`) | what `OptimizerState` learns, forgets, queues and saves |
| `Learning` (extends `Optimizer`) | the same with its caller, and a count of what was really run |
| `Tiers` (extends `Vm`, `Optimizer`) | the head of `run_loop`, `synchronize_jit`, `step_ex`, `step_jit` with its rollback; refines `Vm` |
| `MCVm`, `MCCompiler`, `MCSession`, `MCJitLayout`, `MCContract`, `MCOptimizer`, `MCTiers` | their instances for TLC |
| `VmProofs`, `CompilerProofs`, `JitLayoutProofs`, `ContractProofs`, `ContractRunProofs`, `OptimizerProofs`, `TiersProofs` | their theorems |
| `FoldProofs` | what a left fold does, for any operator; the other proofs instantiate it |

`Vm` is the middle of it: `Compiler` is what feeds it, `Contract` is compared with it
(`ContractRun` extends both), and `Tiers` composes it with the optimizer and with what
`JitLayout` says a block does.

### Vm

The variables are the fields of `Vm` and of the part of `System` that Tier 1 uses,
under their names; the comments at the declarations say which. Three of them are
the Rust program's own control state: `at` says where the code is, `host` is the
Rust call stack of nested `execute_word` calls (each with the `old_ip` and
`old_c_depth` it keeps), and `driver` says whether `run_loop` or `interpret_loop`
is at the bottom of it.

A call of `step_ex` is two steps: `Decode` is the head of `step_tier1`, and the
action of the instruction is its arm in `execute_op` with everything it calls, and
leaves the `Result<ExecutionStatus>` in `result`. What happens next to that result
is a step of its own, as in the code: `WordGoesOn`, `WordReturns` and
`ErrorEscapes` are the loop of `execute_word`; `KeepRunning`, `RunEnds`,
`UnwindThrow`, `UnwindError` and `NoHandler` are the loop of `run_loop`.

Instructions that only compute are written with `Compute(ops, out)`: pop the operands, push the
cells of `out` until one is refused. `Underflow` is the failing pop of every instruction:
the operands that were there are gone. The growing vectors have no limit in the code;
`Exhaust` ends the process at `MaxCalls`, `MaxLoops`, `MaxCatches`, `MaxHosts` or
`MaxCode`, as running out of memory does.

Abstractions. Numbers have `Width` bits, cells `CellBytes` bytes of `ByteBits` bits.
The value of a float, printed text, the kinds of errors and the opcodes that
`execute_op` ignores are not told apart. `CANARY_VALUE` is assumed not to be a word,
so that "nobody wrote the canary" can be said at all; in the program it is
a word like any other, and code may well push it. Addresses that the code casts with `as usize`
are kept signed. `in_tr` is never set by any code and is left out. JIT blocks are
not part of `Vm`: a block exists only after tracing was turned on, which nothing in the
program does, and only the tests do.

`PowerAssumption` and `RepresentationAssumption` are facts of arithmetic (powers of two are
positive; every bit pattern and byte string of a cell's size is a cell's) whose proofs
are inductions over data; TLC evaluates them in every run.

### Compiler

`Compiler` extends `Vm` with the state of the compiling half of `interpret_loop`:
`compiling`, `control_stack`, `words` (the one word list), `hidden` and `latest_word`.
`code` and `dict` are those of `Vm`, so what the text compiles is what `Vm` runs.

One action is one round of `interpret_loop`: a token with, for `:`, `'`, `[']` and
`postpone`, the name read after it. The text is not kept. Wherever the code asks the
parser for a token the model takes any, so every text is covered, and so is every way
a line can break off. The outcome of a round is left in `result`; a round
that returns an error keeps what it did before the error, as in the code: `compiling`,
addresses on the control stack, half a definition. `Unstructured` is the failing pop of a control word,
`SemicolonUnbalanced` the `;` that is refused while a structure is open.

`RunStep` is a step of `Vm` other than the typing of a number or a word, which are
rounds here. `main` calls `run_loop` between two lines, also in the middle of a
definition, so a run may begin whenever the text interpreter is idle.

No code sets `is_immediate`, so no word is immediate and the branch of `interpret_loop`
for immediate words is left out. `is_hidden` is kept because `:` and `;` set it,
although `lookup` (`system.rs:98`) never reads it: a definition that is not ended is found.
Floats have one value. The core words are given as an initial dictionary (`Programs`, `CoreNames`).

### JitLayout

`JitLayout` models `compile_super` as the two passes it is. The bytes of a template are
abstracted to its size (`BodySize`), the places where its checks end (`Checks`) and where its branch ends
(`BranchEnd`); a block is the number `len` of its bytes, the positions of its instructions
and pads, and `word`, the four-byte operands written so far by position. `at` says which loop
of the function is next and `idx` is its counter; one action emits one part or applies one
fixup. `Refuse` is an early `return Err`. `VersionFixup` is the `len - 10` of line 136.

Left out: the opcodes and what they do, the eight-byte operands that no fixup comes near,
the jump inside the template of `Loop` whose displacement is constant, the sign extension of a
`Loop`'s distance from 32 bits (the compiler makes none that long), and the call conventions
of Windows (the instruction that differs has the same size).

### Contract

Operators only. `DataEffect` and `ReturnEffect` are the table of `Op::inline_contract`;
the return stack and the loop stack are one there, and so they are here. `DepthPass` is the
first loop of `validate_sequence_contract`, which follows the depths along the branches,
`ShadowPass` the second, which runs the sequence on symbols; `Accepted`, `Contract` and
`Folded` are what it returns, and `SafeSegments` is `build_safe_segments`. A failed check is
`ok = FALSE` instead of an early return: nothing can be seen in between. Left out is the memory
part of a contract (read and write sets, the alias barrier), which nothing reads.

The passes are left folds (`PassOne`, `ShadowOne` and `CutOne` are one turn of their loops), so
that theorems can speak of sequences of any length. `Opaque` names the ops without a contract.

### ContractRun

`code` is one sequence that is accepted, run once from its start as `run_loop` runs the trace
it stands for; `Before` puts numbers on the stack and starts it, and `base` remembers the depth it
started at. All the rest is `VmStep`. The properties compare the depths and cells of the
run with what `Contract` says. `Mistaken` names the ops whose contract is known to be wrong; sequences with
one of them are not run.

### Optimizer

The variables are the fields of `OptimizerState` that something reads. A pattern is the word
it was seen in and its instructions; the contract and the compiled instructions
follow from these, so they are not kept beside them. `See` is the body of
`extract_patterns` for one segment, `ReadTrace` the loop over the events of a trace with the
segments of each word, `Learned` that and the decay. `Penalize` is `penalize_pattern`,
`CountEval` with `Due` is `should_run_optimizer`. `Save`, `Restart` and `Load` are
the snapshot: the process may end at any time, also in the middle of `fs::write`, which
leaves a file that does not parse. Scores are whole numbers: every pattern has `loop_depth`
0, so a segment is worth one point; the decay takes 0.85 of a score and truncates, as nothing
counts `jit_executions`. `Learning` is the caller: it hands over traces, reports failures
and stops and restarts the process, and its variable `seen` counts how often each watched
sequence was in a trace. Nothing reads it but `PromotionIsEarned`.

### Tiers

`tier` says where `step_ex` and its caller are while `at = "step"`: the head of `run_loop`
(`NotDue`, `Optimize`), the top of `step_ex` (`Look`), before and after the call of a block
(`RunBlock`, `FallBack`), and the call of `step_tier1` (`Interpret`, a step of `Vm` with the
events it traces). `Look` drains what was queued into `blocks` (`Insert` is the part of
`compile_super` that decides, over the templates that it has), forgives a poisoned
block that has rested for thirty seconds (`TimePasses` sets its clock), and takes the marks
`saved` of `step_jit`. `FallBack` is the arm for a trap: `rollback_state_full`, then, in paranoid
mode, `poison_block` and `penalize_pattern`.

A block never gets further than its size check (`BlocksRefuse` below), so `RunBlock` hands back
a trap and a depth read from registers that were never loaded: any of `Garbage`. What follows
a successful block (the commit of `run_jit_guarded` and the comparison with the baseline of
paranoid mode) is not reached and not modelled. A debug build panics in the emitter at an
op without a template (`runtime.rs:490`), so `Tiers` is the release build.

`Tier1` is `Vm` with `entry_ip` and `entry_depth` for `ip` and `d_depth`: while a block
runs, the interpreter is where the block was entered. `BehavesAsTier1` is the specification
of `Vm` under this mapping: learning, compiling, entering and rolling back are stutters.

`extract_patterns` finds the ip of a segment by counting the instructions of the segments before it
(`analysis.rs:183`), and it counts neither what `build_safe_segments` leaves out nor what the
validation drops. `BlocksMatchCode`, that a block's instructions stand at its ip, is therefore
violated (`places`). What does hold is `BlocksWereRun`: whatever a step queues or compiles for an ip was run,
instruction after instruction in one piece of the trace (`IsPiece`), at that ip or behind it in the
piece, and exactly at it where the piece is cut without a gap (`IsStraight`). It bounds the
error: an ip is never one of another piece, and never later than the instructions. A piece may itself be
joined, since a branch that is taken, an error that stops an instruction, and a caller that goes on
elsewhere leave no event behind, and `extract_patterns` reads over it.

## Runs

| run | bounds | shows |
|---|---|---|
| `words` | every sequence of the words that move cells, with room for 4 and a run that throws; 4 bits and 2 operands for the words that compute; data space of 2 cells of 2 bytes | `TypeOK`, `CanariesIntact`, `OnlyOperandsTouched`, `CommaIsAtomic` at every `here`, `DivisionIsExact` for all operands |
| `programs` | 459 programs: 2 or 3 instructions and two words of calls, executes, handlers and throws; all loops with limits and indexes of 2 bits, nested loops; code growing from 4 to 6 instructions | `HostNesting`, `FramesFollowCalls`, `LoopPaired`, `EveryRunReturns` |
| `session` | texts of control words (4 instructions, 1 definition beside the core word, 2 open addresses, floats into the first 2 instructions only), and texts with runs at any moment (3 instructions, 2 definitions beside the core word, 1 open address; `if`, `then`, `+loop` and all words outside structures but floats) | `TextTypeOK`, `BranchesStayInside`, `NothingLeftOpen`, `VisibleWordsEnd`, `FramesFollowCalls`, `FinishedCodeStays`, for every text, well-formed or not |
| `jit` | blocks of 2 instructions: every template beside every branch, at every distance; blocks of 3 and 4 with branches over, onto and out of a body; one block too long | `FixupsDisjoint`, `BranchesFollowTier1`, `ChecksReachTheirPads` |
| `contracts` | every sequence of 3 moves, 4 number words, 5 words with branches, from every depth of a stack of 6 | `EffectAsContracted`, `RoomAsContracted`, `FoldAgrees`, `PiecesAreApart` |
| `learning` | two patterns, shown up to 4 times, a queue of 2, 2 strikes, decay after 8 events | `LearnTypeOK`, `QueuedIsPromoted`, `PromotionIsEarned`, `StrikesAreKept`, `StruckOutStaysOut` |
| `tiers` | 2 main programs on 9 words, up to 3 starts, promotion at the first sight and 1 strike, blocks of up to 2 instructions, a queue of 3, decay after 4 events, with and without paranoid mode | `BehavesAsTier1`, `BlocksWereRun`, `PoisonIsRemembered`, `StruckOutIsNotRebuilt`, `EveryRunReturns` |
| `execute` | two words that execute each other | violation: `ExecuteReturnsToCaller` |
| `throw` | a throw in an executed word | violation: `UnhandledThrowIsReported` |
| `doloop` | one loop | violation: `LoopsRepeatTheirBody` |
| `entry` | the blocks of `jit` | violation: `OnlyFittingContextsEnter` |
| `places` | the instance of `tiers` | violation: `BlocksMatchCode` |

Why these bounds are enough. No instruction looks at more than three cells except `Pick`
and `Roll`, whose index is checked against the depth; room for four cells puts every instruction
at the bottom, in the middle and at the limit of the stack. Arithmetic of four bits has every sign,
zero, both extremes and their overflow; two cells of two bytes give aligned and
unaligned, inside, straddling and outside. The interplay of calls, handlers
and executes is between a frame and the one below it; two of each
give all orders. A control word uses at most two addresses, and four instructions
hold a structure with its `Ret`; what a second definition of the same or of another name does to the first
is seen with runs in between. Every part of a
block is placed by the parts before it only through `len`, so two instructions and a branch
between any two of them show every case of a fixup. A depth of a contract is passed on from one
instruction to the next and along a branch; five words hold a branch that joins and one that
does not, and on a stack of six cells it starts with too little, with enough, and with no room to finish.
In `learning` the threshold, the strikes and the queue are passed by at least one, before
and after a decay and a restart. In `tiers` the words are folded, compiled in one piece and in
several, refused by the emitter, too long, failing where they stand, throwing, branching, and with an instruction
without a contract in the middle; a pattern is promoted when it is seen first and struck out by its second failure, so that three starts
see a block compiled, entered, poisoned, tried again, compiled again and given up, and decay after four events drops
patterns while their blocks are there. The theorems below do not
depend on any bound.

`contracts` leaves out, by name (`Mistaken`), the ops whose contract is not what `execute_op` does;
they are listed below. Its run ends where the sequence ends, and `learning` stops when the caller
has shown everything as often as it may, so deadlock is not checked there. In `contracts` and
`tiers` a host step is a caller's, and is not bound to come.

Fairness. `Fairness` is `WF_vars(VmStep)`: one thread runs the
interpreter and no instruction waits, so a started run keeps taking steps. It is not
assumed that anybody types a word or starts a run. `EveryRunReturns` is checked in
`programs` under it, for programs that do not loop for ever by themselves: the backward
jumps are loop edges, and loops that count down past the most negative number, which never
end, are left out. `QuietSpec` lets the text interpreter in only when no frames are left of
failed runs: a failed run leaves them, and without the bound they pile up until
memory is gone, which is a run that does not return. `TFairness` is the same for `Tiers`: the
interpreter takes its steps, and so does the dispatch before it (`Dispatches`, said of `tier` alone,
which each of its steps changes); nothing is assumed of the clock that lets poisoned blocks rest. It
makes `EveryRunReturns` say that a block that traps is left for the interpreter and not entered
for ever.

## Proofs

`VmProofs` proves, for all sizes, programs and literals that satisfy the assumptions of
`Vm`:

- `TypeCorrect` and `CanariesHold`, together: the slot a push or an unwind writes
  is inside the region because the depth is at most `PushLimit`, and
  `PushLimit + 2 <= StackSlots` keeps it off the canaries. The inductive invariant is
  `TypeOK /\ CanariesIntact`; it needs that the depth kept in a `CatchFrame` is within the limit.
- `OperandsHold`: an action property, from `TypeOK`.
- `FramesHold`: `FramesFollowCalls` is not inductive: the frame is pushed an
  instruction after the `Call` was read. `CallInProgress` adds that an instruction being executed is the one
  before `ip` or came from a primitive's entry, which is never a `Call`.
- `HostsNest`, `LoopsPaired`: inductive relative to `TypeOK`.
- `CommaAtomic`: assumes that the data space is a whole number of cells, as the 1 MiB of `main` is;
  it rests on the lemma that rounding an address that fits up to a cell gives one that fits.
- `DivisionExact`: an action property, from `TypeOK`. The truncated quotient is the floor of
  the magnitudes with a sign; `WrapsTheSame` and `WrapSum` say that wrapping is by a multiple of the number of
  words and may be done before or after an operation, so that quotient, remainder and dividend agree
  after the one overflow too.

`CompilerProofs` proves for all texts and dictionaries that satisfy `NamesAssumption` (the
core consists of primitives, and its names lead to them), with runs at any moment. The inductive
invariant adds `CompilerInv` to the types of `Vm`:

- `Balanced`: every address on the control stack lies after the last `Ret`, that is,
  inside the definition being compiled, also after errors. This is what makes the rest
  inductive: it holds because `;` refuses to end a definition while the stack is not empty.
- `BranchesHold`: from `Balanced`, whatever pops an address patches or emits a branch
  between two places of the same definition.
- `FinishedHolds`: an action property: a patch goes to an address of `Balanced`, and running code
  only appends.
- `StructuresClosed`, `VisibleWordsHold`: that an address of a word is at most the length
  of the code (`WordsBegin`), so the `Ret` of `;` comes after it.
- `CompiledFramesHold`: the argument of `FramesHold` again, since now patches, too, change
  the code under a frame: they keep its opcodes.
- `TextTypeCorrect`.

`JitLayoutProofs` proves for all sets of blocks:

- `FixupsAreDisjoint`: the fixups are noted in the order of their positions, four bytes apart
  (`Spaced`), because the checks and the branch of each template are (`TemplateFacts`).
- `BlocksRefuse`: the size check compares with the distance from byte 65 to a pad. Every pad but
  the first starts at a multiple of 16, and 264 + 65 = 329 is not one, so the number never is
  the size of a context, whatever the block.
- `TypeCorrect`.

Of what the patched bytes lead to, again for all sets of blocks, it proves:

- `BranchesGoRight`, `ChecksReachPads`: the inductive invariant `Aimed` says that every branch
  and every check of an instruction that was emitted is noted, with its own position
  (`BranchesNoted`, `ChecksNoted`); that what a fixup wrote is still there, because no other fixup has
  its position (`FixupsStay`, from `Spaced`); and that the pad of a check begins where its fixup is
  told, because a pad is filled up to 48 bytes (`PadsPlaced`).

`TiersProofs` proves for all programs, limits and traps, with tracing on:

- `TiersImplementVm`: `TSpec => BehavesAsTier1`. The inductive invariant, `TierInv`, adds to
  the types of `Vm` that inside a block `saved` is what the interpreter's depths and lengths
  are (`Marks`); with it the rollback is exact (`RollBackIsExact`), since a stack cut or extended
  to its own length is itself, and every step of the dispatch is a stutter (`DispatchIsHidden`). A step of
  the interpreter or of its caller is never inside a block (`InterpretIsOutside`), where the
  mapping changes nothing: the lemmas from `SameSets` to `HostStepMaps` carry this from the
  helpers of `Vm` up to its actions.
- `TiersKeepInvariants`: by the same invariant `TSpec => Spec`, so what `VmProofs` proves of the
  interpreter alone holds with both tiers.

- `TiersLearnSoundly`: the traces that the optimizer reads in `Tiers` are those of `Optimizer`
  (`EventType`), so its invariant, `OInv` below, holds with both tiers.
- `PoisonRemembered`: an action property, from the same invariant: a pattern with a failure survives
  the decay whatever its score, and `Poison` counts the failure where it sets the mark.
- `StruckOutLeftAlone`: an action property: whatever waited in the queue when a pattern failed once too often,
  no block is compiled for it again. `StrikeInv` adds to that invariant that nothing
  struck out waits (`Unstruck`), which a failure would break but for its last part: while a block runs
  the queue is empty, because `synchronize_jit` drains it before every step.
- `BlocksAreWhatWasRun`: `BlocksWereRun`. The inductive invariant adds `EventsAreCode`: what the trace
  says of an ip is the instruction that stands there, also after the code has grown (`CodeGrows`).
  What a visit of the optimizer takes from such a trace is `Traced` (`LearnedFits`, below), the drain of the queue adds
  no item (`CompiledIsIn`), and no other step has new ones (`HeldTurn`).

`FoldProofs` holds lemmas about `FoldLeft` of the community modules with an operator `op` that is a
constant of the module: the function it is defined by exists (`FoldingExists`), so a fold over a
sequence of any length is a run from its base through the elements (`FoldRuns`). The one
induction it needs (`UpTo`) follows from the well-ordering of the natural numbers, which is
proved of sets and so needs no operator as a parameter. `FoldHolds`, `FoldStaysIn` and
`FoldMore` are the forms that are cited. Each proof module instantiates it with its own loops:
`Passing`, `Shadowing` and `Cutting` in `ContractProofs`, `Seeing` and `Reading` in `OptimizerProofs`,
`Building` in `TiersProofs`.

`ContractProofs` proves for sequences of any length:

- `SegmentsAreApart`: what has been cut after `n` instructions (`CutAfter`) is accepted pieces that
  lie one behind the other, and a piece under way that ends at `n` and lives on its own cells.
- `BranchlessIsAccepted`: a sequence of contracted instructions without branches passes validation, both loops
  of it; so the cut never loses such a piece.
- `SegmentsAreTiled`: of straight code, where an instruction without a contract can only be the last, the segments lie
  end to end from the first instruction on: nothing is left out between two of them. This is what the offsets of
  `extract_patterns` rely on.
- `PassSays`: after `n` instructions of the depth pass (`PassedAfter`) each has a depth, every exit
  of it has the depth after it, and the bounds hold what it takes and leaves.

`ContractRunProofs` proves for all sequences and starting depths:

- `RoomHolds`, `EffectHolds`: the inductive invariant, `RunInv`, says that an accepted sequence runs once
  (`RunsOnce`: no exception, call or crash brings it back) and that at every position the stacks have exactly
  the depths that the pass has for it (`DepthsAsPassed`). An instruction keeps it because the
  numbers of its contract are what its arm of `execute_op` does (`StepAsContracted`, one case for
  each action of `Vm`), and because every exit of it has the depth after it (`PassSays`).
- `FoldedHolds`: adds `ShadowIsStack`: the cells that the symbolic run knows after the
  instructions so far are, wrapped, on the stack (`Mirrors`). A foldable sequence has no branch,
  so the instructions so far are a prefix of it and one more of them is one more turn
  of the fold (`ShadowMore`). Sums are kept whole by the model's symbols and wrapped at the end;
  `WrapSum` says that this is the same.
- `PiecesHold`: from `SegmentsAreApart`; a piece without branches that lives on its own cells has the depths of
  `LivesOn` in its pass, too (`LivesOnItsOwn`).

`OptimizerProofs` proves for all traces and limits:

- `LearnTypes`, `QueueIsPromoted`: the inductive invariant, `OInv`, is said of a state (`Sound`) and
  demanded of the state in memory and of the one on disk alike, for `Load` brings back the second.
- `StrikesStay`, `StruckOut`: action properties: one segment, one piece, one trace and the decay
  take no failure away and queue nothing that is struck out (`StepRemembers`).
- `PromotionEarned`: the invariant carries a limit for every watched sequence: the scores of its patterns
  are never more than how often it was run (`Within`), and those that were promoted had it reach
  the threshold (`Earned`). While a trace is read the limit counts the places seen so far, and
  a segment is such a place because the pieces of the cut are parts of the trace, one behind the other.
- For `TiersProofs`: that reading a trace and the decay queue nothing that is struck out (`NoneBlamed`, `Unstruck`), and
  that what a trace adds to the queue was run in it (`LearnedFits`). A segment lies in its piece behind all
  segments before it (`SegmentsAreApart`), so the offset that is counted is at most its place (`SegmentEnds`);
  in a piece without a gap the segments are laid end to end (`SegmentsAreTiled`), and it is its place.

Only model-checked: `EveryRunReturns` (liveness under fairness) and the five disagreements below.
Every invariant and action property of the passing runs is a theorem. `PowerAssumption`
and `RepresentationAssumption` stay assumptions
that TLC evaluates: the provers know nothing of `^`, not even that it multiplies.

## Where the code and its documents disagree

- `execute`: `README.md:14` promises the standard's `EXECUTE`. `execute_word` stops when the
  call stack is shorter than at its entry, so the `Ret` of the executed word pops the frame
  of the word that executed it. That word goes on behind its `EXECUTE` (`execution.rs:541` puts `ip`
  back), but its own `Ret` then pops the next frame below, or finds none and ends the run: what its
  caller had left to do is skipped.
- `throw`: `lib.rs:57` promises an error for an unhandled exception. `Op::Execute` drops the
  status of `execute_word`, and a throw in an executed word is lost.
- `doloop`: `README.md:98` promises the standard's loops. `do` pushes the address of its `Do`
  (`lib.rs:221`), and `loop` goes back there: every turn takes two more cells and opens a new loop.
- `entry`: `runtime.rs:136` is the fixup of the version check by its comment, and `README.md:11` promises
  native code. It is ten bytes before the end of the code, where the number is that the size check compares
  with: the version check never traps, the size check always does, and a program whose blocks
  are compiled still runs in Tier 1 alone. `EveryBlockRefuses`, proved as `BlocksRefuse`, says so of every block,
  and `Tiers` builds on it.
- `places`: `optimizer.md:17-18` has blocks looked up by `ip` and the instructions they stand for skipped. The
  instruction at 0 has no contract and is left out by the cut, and the block of the instruction at 1 is
  compiled for ip 0 (`analysis.rs:183`). The program does not notice only because every block refuses.

Seen while modelling, with no run of their own:

- `Cargo.toml:5` promises zero panics. `a + 8` overflows for the addresses -8 .. -1 (`memory.rs:41`,
  `AddressWraps`), and a debug build panics at an op that has no template (`runtime.rs:490`), where the
  comment says it was filtered.
- `lib.rs:190` says that code is compiled which compiles a call. It is a `Call`
  of the entry of `compile,`, and `Op::Call` runs only words that are not primitives: nothing is compiled when it runs.
- `docs/persistence.md:18` promises a restart with all that was learned. `context_patterns` is a map
  whose keys are structs; JSON has no such keys, and `save_to_file` refuses every state that holds a
  pattern (`Serializable`). Nothing in the program calls it.
- `optimizer.md:13` promises contracts; those of `Over`, `PushF`, `RFetch`, `PLoop`, `Loop` and
  `Stop` are not what `execute_op` does (`Mistaken` in `ContractRun`).
- `optimizer.md:18` has the length of the original sequence stored; it is that of the folded one
  (`runtime.rs:576`). `optimizer.md:12` promotes a score that exceeds the threshold, the code one that
  reaches it. `learning.md:31` retires a pattern after more than three strikes, the code after more
  than five, and strikes are counted in paranoid mode only. There such a pattern is ignored for good; here no block is compiled for it
  (`StruckOutIsNotRebuilt`), but the poisoned one it has is forgiven and tried again after every thirty
  seconds (`runtime.rs:77`), whatever its strikes. `learning.md:30` halves the scores, the code
  takes 0.85 of them (`analysis.rs:166`). `persistence.md:8` has version 6, the code 8.
- `trace_enabled` is false and only tests set it: the program itself never learns. The instructions
  before a `Call` are attributed to the word called. The trace is emptied by `run_loop` only, so
  under a long `execute_word` it grows without a bound.
- `penalize_pattern` (`analysis.rs:88`) does nothing for a pattern that the decay has dropped. A block
  of such a pattern is poisoned without a strike, and the pattern, once seen again, starts
  afresh. `PoisonIsRemembered` therefore speaks of patterns that are known.
- The baseline of paranoid mode runs `Dot` and `Emit`, too: where a block did commit, output would be
  printed twice (`execution.rs:59`).
- The parser's alternatives try a number before a word and do not ask for a blank behind it
  (`parser.rs:29`): `2dup` is read as `2 dup`, `2drop` as `2 drop`, and `."` of the example at
  `README.md:102` is an unknown word.
- `begin 7 then` patches the literal instead of a branch (`lib.rs:130`; any instruction is patched); a
  definition that is not ended can be called, as `is_hidden` is never read (`system.rs:98`); the jump over
  the path tracing of a block's instruction ends inside one (`runtime.rs:155`).

## What is left

1. The promotion of patterns with both tiers, counted over the runs of `Tiers` instead of the traces of a
   caller: `PromotionEarned` is about `Learning`, whose caller hands over whole traces.
2. `BlocksMatchCode`, should `extract_patterns` be made to count what it leaves out and the trace to be cut where
   control jumps: it would then take the place of `BlocksWereRun`.
3. The stack of input sources and the order of `main`, should the parser ever be given more
   than one source at a time by the program itself.

## Not modelled

- The parser: `next_token` is one regular expression over characters. `Compiler` may be given any
  token at any time, which contains every way a text can be split, the rest of a line that
  is read after an error, and the order of `main`; so a property of `Compiler` holds of every text, but
  which tokens a text has is not said.
- The x86 semantics of generated bytes, and what the program would do if a block did run to its end: the
  commit, the paranoid comparison, the journal, the shadow stacks.
- The memory part of contracts, which nothing reads.
- The kinds of errors, output, prompts, page protection, and the mapping of memory.
