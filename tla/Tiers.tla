------------------------------- MODULE Tiers -------------------------------
(***************************************************************************)
(* The two tiers together: run_loop's visits to the optimizer, the         *)
(* dispatch of step_ex between compiled blocks and the interpreter of Vm,  *)
(* and what step_jit undoes and remembers when a block traps.              *)
(*                                                                         *)
(* Tracing is on.  The variable tier says where step_ex and its caller are *)
(* while at = "step": "head" is the top of run_loop, "look" the top of     *)
(* step_ex, "block" and "back" before and after the call of a block, and   *)
(* "tier1" the call of step_tier1.                                         *)
(*                                                                         *)
(* Every block refuses to run: JitLayout's EveryBlockRefuses.  So a block  *)
(* hands back a trap and, in the fields its trap pad fills from registers  *)
(* that were never loaded, anything; run_jit_guarded commits nothing, and  *)
(* the comparison with the baseline that paranoid mode runs on copies is   *)
(* not reached.                                                            *)
(***************************************************************************)
EXTENDS Vm, Optimizer

CONSTANTS
  MAX_BLOCK_OPS,  \* the longest block (256)
  Garbage         \* depths a register may hold that was never loaded

\* A debug build panics in the emitter at an op that has no template.
ASSUME ReleaseBuild == ~OverflowChecks

VARIABLES
  tier,
  runtime_trace,  \* sys.runtime_trace
  blocks,         \* sys.jit.blocks, by ip
  saved,          \* step_jit's initial_ip, initial_depth, ...
  context,        \* the JitContext a block hands back: trap_code and d_depth
  paranoid_mode   \* sys.paranoid_mode

tvars == <<vars, ovars, tier, runtime_trace, blocks, saved, context, paranoid_mode>>

-----------------------------------------------------------------------------
(***************************************************************************)
(* synchronize_jit and compile_super.                                      *)
(***************************************************************************)
\* The ops compile_super has a template for.
Templated ==
  {"Jump", "JZ", "Loop", "Push", "Add", "Sub", "Mul", "Store", "Fetch", "Eq",
   "Lt", "Gt", "ToR", "FromR", "Dup", "Drop", "Swap", "Over", "Inc", "Dec",
   "Do", "I"}

Ops(ctx) == Folded(ctx.original_ops)

\* The validation has kept the jumps inside.
Compilable(ops) ==
  /\ Len(ops) <= MAX_BLOCK_OPS
  /\ \A i \in DOMAIN ops : ops[i].op \in Templated

\* compile_super inserts a block over the one that is there, poisoned or not.
NewBlock(ctx) == [ctx |-> ctx, is_poisoned |-> FALSE, rested |-> FALSE]

\* A poisoned block, and whether thirty seconds have gone by since.
OutOfUse(ctx, rested) == [ctx |-> ctx, is_poisoned |-> TRUE, rested |-> rested]

\* An op without a template is an error, which synchronize_jit ignores.
Insert(built, item) ==
  IF Compilable(Ops(item.ctx)) THEN With(built, item.ip, NewBlock(item.ctx)) ELSE built

Compiled(queue) == FoldLeft(Insert, blocks, queue)

-----------------------------------------------------------------------------
(***************************************************************************)
(* The head of run_loop.                                                   *)
(***************************************************************************)
At(t) == at = "step" /\ tier = t

NotDue ==
  /\ At("head")
  /\ ~Due
  /\ CountEval
  /\ tier' = "look"
  /\ UNCHANGED <<vars, learned, decay_counter, is_frozen, disk, runtime_trace, blocks,
                 saved, context, paranoid_mode>>

Optimize ==
  /\ At("head")
  /\ Due
  /\ CountEval
  /\ \E now \in {Learned(runtime_trace)} :
       /\ patterns' = now.mind.patterns
       /\ super_instructions' = now.mind.supers
       /\ decay_counter' = now.count
       /\ blocks' = Compiled(now.mind.pending)
  /\ runtime_trace' = <<>>
  /\ pending_jit' = <<>>
  /\ tier' = "look"
  /\ UNCHANGED <<vars, is_frozen, disk, saved, context, paranoid_mode>>

(***************************************************************************)
(* step_ex: a poisoned block is tried again after thirty seconds.          *)
(***************************************************************************)
Recovered(built) ==
  [a \in DOMAIN built |->
     IF a = ip /\ built[a].rested THEN NewBlock(built[a].ctx) ELSE built[a]]

Usable(built) == ip \in DOMAIN built /\ ~built[ip].is_poisoned

Marks == [ip |-> ip, d_depth |-> d_depth, l_len |-> Len(loop_stack), r_len |-> Len(r_stack),
          c_len |-> Len(c_stack), f_len |-> f_depth, e_len |-> Len(exception_stack)]

Look ==
  /\ At("look")
  /\ blocks' = Recovered(Compiled(pending_jit))
  /\ pending_jit' = <<>>
  /\ IF Usable(blocks') THEN tier' = "block" /\ saved' = Marks
                        ELSE tier' = "tier1" /\ UNCHANGED saved
  /\ UNCHANGED <<vars, patterns, super_instructions, pace, is_frozen, disk,
                 runtime_trace, context, paranoid_mode>>

(***************************************************************************)
(* step_jit.                                                               *)
(***************************************************************************)
RunBlock ==
  /\ At("block")
  /\ \E depth \in Garbage : context' = [trap_code |-> 10, d_depth |-> depth]
  /\ tier' = "back"
  /\ UNCHANGED <<vars, ovars, runtime_trace, blocks, saved, paranoid_mode>>

\* truncate, or resize with zeros.
Resized(s, n, zero) ==
  IF n <= Len(s) THEN SubSeq(s, 1, n) ELSE s \o [k \in 1 .. n - Len(s) |-> zero]

NoFrame == [d_depth |-> 0, r_depth |-> 0, c_depth |-> 0, handler_ip |-> 0]

\* rollback_state_full
RollBack ==
  /\ ip' = saved.ip /\ d_depth' = saved.d_depth /\ f_depth' = saved.f_len
  /\ loop_stack' = Resized(loop_stack, saved.l_len, 0)
  /\ r_stack' = Resized(r_stack, saved.r_len, 0)
  /\ c_stack' = Resized(c_stack, saved.c_len, 0)
  /\ exception_stack' = Resized(exception_stack, saved.e_len, NoFrame)

\* Mutant of Poison: the pattern is not told.
PoisonOnly ==
  /\ blocks' = [blocks EXCEPT ![saved.ip] = OutOfUse(@.ctx, FALSE)]
  /\ UNCHANGED ovars

Poison ==
  /\ blocks' = [blocks EXCEPT ![saved.ip] = OutOfUse(@.ctx, FALSE)]
  /\ Penalize(blocks[saved.ip].ctx)

\* Mutant of FallBack: the trap is taken for the block's result.
FallBackCommits ==
  /\ At("back")
  /\ d_depth' = context.d_depth
  /\ IF paranoid_mode THEN Poison ELSE UNCHANGED <<blocks, ovars>>
  /\ tier' = "tier1"
  /\ UNCHANGED <<store, d_stack, frames, ip, caller, at, instr, result, runtime_trace,
                 saved, context, paranoid_mode>>

\* Mutant of FallBack: after the rollback the step is tried once more.
FallBackRetries ==
  /\ At("back")
  /\ RollBack
  /\ IF paranoid_mode THEN Poison ELSE UNCHANGED <<blocks, ovars>>
  /\ tier' = "look"
  /\ UNCHANGED <<store, d_stack, caller, at, instr, result, runtime_trace, saved, context,
                 paranoid_mode>>

\* The block has trapped.  Only paranoid mode poisons it and counts the
\* failure; the interpreter takes the step.
FallBack ==
  /\ At("back")
  /\ RollBack
  /\ IF paranoid_mode THEN Poison ELSE UNCHANGED <<blocks, ovars>>
  /\ tier' = "tier1"
  /\ UNCHANGED <<store, d_stack, caller, at, instr, result, runtime_trace, saved, context,
                 paranoid_mode>>

-----------------------------------------------------------------------------
(***************************************************************************)
(* step_tier1 and all that follows it until the next step, with the events *)
(* it traces.                                                              *)
(***************************************************************************)
Event ==
  CASE at = "step" /\ InCode(ip) ->
         << [kind |-> "Op", ip |-> ip, ins |-> code[ip + 1]] >>
    [] at = "exec" /\ instr.op = "Call" ->
         << [kind |-> "EnterWord", word |-> instr.data] >>
    [] at = "exec" /\ instr.op = "Ret" -> << [kind |-> "ExitWord"] >>
    [] OTHER -> <<>>

\* The next step is run_loop's, or a nested execute_word's.
NextTier ==
  tier' = CASE at' = "step" /\ host' = <<>> /\ driver' = "run_loop" -> "head"
            [] at' = "step" /\ ~(host' = <<>> /\ driver' = "run_loop") -> "look"
            [] OTHER -> tier

Interpret ==
  /\ at = "step" => tier = "tier1"
  /\ VmStep
  /\ runtime_trace' = runtime_trace \o Event
  /\ NextTier
  /\ UNCHANGED <<ovars, blocks, saved, context, paranoid_mode>>

Host ==
  /\ HostStep
  /\ NextTier
  /\ UNCHANGED <<ovars, runtime_trace, blocks, saved, context, paranoid_mode>>

\* The tests' own call of observe_runtime_traces between two runs.
ObserveBetween ==
  /\ at = "idle"
  /\ Observe(runtime_trace)
  /\ runtime_trace' = IF is_frozen \/ Len(runtime_trace) < 2 THEN runtime_trace ELSE <<>>
  /\ UNCHANGED <<vars, eval_count, next_opt_threshold, is_frozen, disk, tier, blocks,
                 saved, context, paranoid_mode>>

TimePasses ==
  /\ \E a \in DOMAIN blocks :
       /\ blocks[a].is_poisoned /\ ~blocks[a].rested
       /\ blocks' = [blocks EXCEPT ![a] = OutOfUse(@.ctx, TRUE)]
  /\ UNCHANGED <<vars, ovars, tier, runtime_trace, saved, context, paranoid_mode>>

-----------------------------------------------------------------------------
TInit ==
  /\ Init
  /\ OInit
  /\ tier = "head" /\ runtime_trace = <<>> /\ blocks = <<>> /\ saved = Marks
  /\ context = [trap_code |-> 0, d_depth |-> 0]
  /\ paranoid_mode \in BOOLEAN

DispatchStep ==
  NotDue \/ Optimize \/ Look \/ RunBlock \/ FallBack

TNext == Interpret \/ DispatchStep \/ Host \/ ObserveBetween \/ TimePasses

\* DispatchStep as its effect on tier shows it.
Dispatches ==
  /\ at = "step" /\ tier # "tier1"
  /\ tier' \in {"look", "block", "back", "tier1"}

\* One thread runs both tiers, and nothing in it waits.
TFairness == WF_tvars(Interpret) /\ WF_tier(Dispatches)

TSpec == TInit /\ [][TNext]_tvars /\ TFairness

-----------------------------------------------------------------------------
(***************************************************************************)
(* Properties.                                                             *)
(***************************************************************************)
InBlock == at = "step" /\ tier \in {"block", "back"}

\* While a block runs, the interpreter is where the block was entered.
entry_ip    == IF InBlock THEN saved.ip ELSE ip
entry_depth == IF InBlock THEN saved.d_depth ELSE d_depth

Tier1 == INSTANCE Vm WITH ip <- entry_ip, d_depth <- entry_depth

\* The optimizer, the dispatch and the rollback cannot be seen: whatever was
\* compiled, poisoned or tried again, the program does what the interpreter
\* alone would do.
BehavesAsTier1 == Tier1!Spec

\* What waits for the JIT and what it has compiled, with the ips it is for.
Held == { [ip |-> a, ctx |-> blocks[a].ctx] : a \in DOMAIN blocks }
          \cup { pending_jit[k] : k \in DOMAIN pending_jit }

\* In one piece of a trace the instructions of an item were run one after
\* another, at its ip when the piece is straight, and else there or later.
WasRun(trace, item) ==
  \E s, e \in DOMAIN trace :
    /\ IsPiece(trace, s, e)
    /\ \E p, q \in s .. e :
         /\ p <= q /\ (IsStraight(trace, s, e) => p = q)
         /\ trace[p].ip = item.ip
         /\ \A i \in DOMAIN item.ctx.original_ops :
              q + i - 1 <= e /\ code[trace[q + i - 1].ip + 1] = item.ctx.original_ops[i]

\* What an observation queues or compiles for an ip was run.
BlocksWereRun ==
  [][\A item \in Held' : item \in Held \/ WasRun(runtime_trace, item)]_tvars

\* A failure is counted where a block is poisoned: a step that poisons the
\* block of a pattern the optimizer knows leaves the pattern with a failure,
\* and as long as the block is out of use no step forgets that.  (A pattern
\* whose score had decayed to nothing before is not known.)
PoisonIsRemembered ==
  [][\A a \in DOMAIN blocks :
       LET ctx == blocks[a].ctx
       IN  (/\ blocks'[a].is_poisoned /\ ctx \in DOMAIN patterns
            /\ blocks[a].is_poisoned => patterns[ctx].failures > 0)
             => ctx \in DOMAIN patterns' /\ patterns'[ctx].failures > 0]_tvars

\* learning.md:31.  A pattern with too many failures is left alone: no block is
\* compiled for it, at whatever ip, however often it is seen again and whatever
\* was queued when it failed; those it has stay out of use until their time is
\* over.
StruckOutIsNotRebuilt ==
  [][\A a \in DOMAIN blocks' :
       LET ctx == blocks'[a].ctx
       IN  ctx \in DOMAIN patterns' /\ patterns'[ctx].failures > MaxStrikes =>
             /\ a \in DOMAIN blocks /\ blocks[a].ctx = ctx
             /\ blocks[a].is_poisoned /\ ~blocks[a].rested => blocks'[a].is_poisoned]_tvars

(***************************************************************************)
(* A claim of the documents that the code does not keep.                   *)
(***************************************************************************)
\* optimizer.md:17: blocks are looked up by ip, and a block that has run skips
\* the instructions it was compiled from.  So these stand at its ip.
BlocksMatchCode ==
  \A a \in DOMAIN blocks :
    \A i \in DOMAIN blocks[a].ctx.original_ops :
      a + i <= Len(code) /\ code[a + i] = blocks[a].ctx.original_ops[i]

=============================================================================
