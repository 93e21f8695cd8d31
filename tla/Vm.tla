--------------------------------- MODULE Vm ---------------------------------
(***************************************************************************)
(* The Tier 1 bytecode interpreter of kaiforth: the stacks of src/vm, the  *)
(* instruction dispatch of Vm::execute_op, the recursion of                *)
(* Vm::execute_word, and the two callers that drive them, Vm::run_loop and *)
(* the interpretation mode of Vm::interpret_loop.                          *)
(*                                                                         *)
(* A call of step_ex is two steps of the model: Decode reads the          *)
(* instruction into instr, and the action of the instruction performs      *)
(* execute_op and leaves the Result<ExecutionStatus> in result.  The Rust  *)
(* call stack of nested execute_word calls is the variable host.           *)
(*                                                                         *)
(* Numbers are two's complement words of Width bits (64 in the code).  An  *)
(* address or instruction pointer that the code casts with `as usize` is   *)
(* kept as the signed number: it is out of every range whenever the        *)
(* unsigned one is.                                                        *)
(***************************************************************************)
EXTENDS Integers, SequencesExt

CONSTANTS
  Width,          \* bits of a cell (i64: 64)
  CountBits,      \* bits a shift count is truncated to (u32: 32)
  StackSlots,     \* words of the data stack region, canaries included (1024)
  PushLimit,      \* depth at which d_push refuses (1022)
  RLimit,         \* depth at which r_push refuses (1024)
  FLimit,         \* depth at which f_push refuses (1024)
  CANARY_VALUE,   \* the word at both ends of the data stack region
  Blank,          \* the character BL pushes (32)
  MemSize,        \* bytes of data space (1 MiB in main.rs)
  CellBytes,      \* bytes of a cell (8)
  ByteBits,       \* bits of a byte (8)
  OverflowChecks, \* TRUE in a debug build, FALSE in a release build
  Programs,       \* the [code, dict] pairs a run may start with
  Literals,       \* the numbers the text interpreter may be given
  MaxCalls,       \* bounds of the growable vectors: beyond one of them the
  MaxLoops,       \*   process is out of memory
  MaxCatches,
  MaxHosts,       \* bound of the native stack: nested execute_word calls
  MaxCode

Half  == 2^(Width - 1)
Val   == -Half .. (Half - 1)
Slots == 0 .. (StackSlots - 1)
Addr  == 0 .. (MemSize - 1)
Byte  == 0 .. (2^ByteBits - 1)

\* Bit i of the two's complement representation of v.
Bit(v, i) == ((v % (2 * Half)) \div 2^i) % 2

\* v.to_le_bytes()
Bytes(v) ==
  [i \in 0 .. (CellBytes - 1) |->
     ((v % (2 * Half)) \div 2^(ByteBits * i)) % 2^ByteBits]

-----------------------------------------------------------------------------
(***************************************************************************)
(* Opcodes.  PrimitiveOps are the ones System::register_core gives a name, *)
(* CodeOps the others; "Noop" stands for every opcode that execute_op      *)
(* ignores (Noop, Prim, DoesPatch, DoesJump, Leave, Super).                *)
(***************************************************************************)
ArithmeticOps == {"Add", "Sub", "Mul"}
DivisionOps   == {"Mod", "DivMod", "Div"}
ShuffleOps    == {"Dup", "Drop", "Swap", "Over", "Rot", "Nip", "Tuck",
                  "Drop2", "Dup2"}
UnaryOps      == {"Inc", "Dec", "Square", "IsZero", "Negate", "Invert"}
BitOps        == {"And", "Or", "Xor"}
ShiftOps      == {"LShift", "RShift"}
ExtremeOps    == {"Max", "Min"}
CompareOps    == {"Eq", "Lt", "Gt"}
ConstantOps   == {"Depth", "BL", "Here"}
OutputOps     == {"Dot", "Emit", "Cr"}
MemoryOps     == {"Fetch", "Store", "FetchC", "StoreC"}

PrimitiveOps ==
  ArithmeticOps \cup DivisionOps \cup ShuffleOps \cup UnaryOps \cup BitOps
    \cup ShiftOps \cup ExtremeOps \cup CompareOps \cup ConstantOps
    \cup OutputOps \cup MemoryOps
    \cup {"Abs", "Pick", "Roll", "Allot", "Comma", "CompileComma", "I", "J",
          "Execute", "Yield", "Catch", "Throw", "Stop"}

CodeOps == {"Noop", "Push", "PushF", "Call", "Ret", "Jump", "JZ", "Do",
            "Loop", "PLoop", "ToR", "FromR", "RFetch"}

TakesTwo ==
  ArithmeticOps \cup DivisionOps \cup BitOps \cup ShiftOps \cup ExtremeOps
    \cup CompareOps
    \cup {"Swap", "Over", "Nip", "Tuck", "Drop2", "Dup2", "Store", "StoreC", "Do"}

TakesOne ==
  UnaryOps
    \cup {"Dup", "Drop", "Abs", "Pick", "Roll", "Fetch", "FetchC", "Allot", "Comma",
          "CompileComma", "Execute", "Throw", "Dot", "Emit", "PLoop", "JZ", "ToR"}

\* How many cells execute_op pops from the data stack before anything else
\* it does can be observed.
Arity(op) ==
  CASE op = "Rot"       -> 3
    [] op \in TakesTwo -> 2
    [] op \in TakesOne -> 1
    [] OTHER            -> 0

Instruction == [op : PrimitiveOps \cup CodeOps, data : Int]
Entry       == [kind : {"prim", "word"}, op : PrimitiveOps, addr : Nat]
Program     == [code : Seq(Instruction), dict : Seq(Entry)]

Status  == {"Done", "Yielded", "Stop", "Thrown", "Err", "Panic", "Exhausted"}
Done    == [status |-> "Done", code |-> 0]
Nop     == [op |-> "Noop", data |-> 0]

ASSUME WordAssumption ==
  /\ Width \in Nat \ {0} /\ CountBits \in Nat \ {0}
  /\ CellBytes \in Nat \ {0} /\ ByteBits \in Nat \ {0}
  /\ Literals \subseteq Val /\ Blank \in Int

\* A fact of arithmetic, assumed because its proof is an induction.
ASSUME PowerAssumption ==
  \A n \in 0 .. (Width + CountBits + ByteBits * CellBytes) : 2^n \in Nat \ {0}

ASSUME StackAssumption ==
  /\ StackSlots \in Nat /\ PushLimit \in Nat \ {0}
  /\ PushLimit + 2 <= StackSlots
  /\ RLimit \in Nat /\ FLimit \in Nat
  /\ CANARY_VALUE \notin Val

ASSUME MemoryAssumption ==
  /\ MemSize \in Nat
  /\ OverflowChecks \in BOOLEAN

\* Bit patterns and byte strings of a cell's size are the cells.
ASSUME RepresentationAssumption ==
  /\ \A p \in [0 .. (Width - 1) -> {0, 1}] :
       \E v \in Val : \A i \in 0 .. (Width - 1) : Bit(v, i) = p[i]
  /\ \A b \in [0 .. (CellBytes - 1) -> Byte] : \E v \in Val : Bytes(v) = b

ASSUME ProgramAssumption == Programs \subseteq Program

ASSUME BoundAssumption ==
  /\ MaxCalls \in Nat /\ MaxLoops \in Nat /\ MaxCatches \in Nat
  /\ MaxHosts \in Nat /\ MaxCode \in Nat

VARIABLES
  code,            \* sys.code: a sequence of instructions
  dict,            \* sys.dict.entries
  mem,             \* sys.memory.raw
  here,            \* sys.memory.here
  d_stack,         \* the data stack region, canaries at both ends
  d_depth,         \* vm.d_depth: cell i of the stack is in slot i + 1
  f_depth,         \* vm.f_stack.len(): no instruction reads the floats
  r_stack,         \* vm.r_stack
  c_stack,         \* vm.c_stack: the ret_ip of each Frame
  loop_stack,      \* vm.loop_stack
  exception_stack, \* vm.exception_stack: CatchFrames
  ip,              \* vm.ip
  at,              \* where the Rust code is: see TypeOK
  instr,           \* the op and data execute_op runs
  result,          \* what the last call returned
  host,            \* the active execute_word calls, outermost first
  driver           \* who called: run_loop or interpret_loop

store  == <<code, dict, mem, here>>
data   == <<d_stack, d_depth>>
frames == <<f_depth, r_stack, c_stack, loop_stack, exception_stack>>
caller == <<host, driver>>
vars   == <<store, data, frames, ip, caller, at, instr, result>>

-----------------------------------------------------------------------------
(***************************************************************************)
(* What an instruction leaves behind: the status it returns, and the cells *)
(* it pops and pushes.                                                     *)
(***************************************************************************)
Least(a, b) == IF a <= b THEN a ELSE b

\* Wrapping arithmetic: the word congruent to x.
Wrap(x) == ((x + Half) % (2 * Half)) - Half

Flag(b) == IF b THEN -1 ELSE 0

\* Cell i from the top of the data stack, 1 being the top.
Arg(i) == d_stack[d_depth - i + 1]

InCode(a) == a \in 0 .. (Len(code) - 1)

Return(status, value) ==
  /\ at' = "result"
  /\ result' = [status |-> status, code |-> value]
  /\ instr' = Nop

Finish(status) == Return(status, 0)

\* The process is gone: a Rust panic, or a vector that cannot grow.
Crash(status) ==
  /\ at' = "crash"
  /\ result' = [status |-> status, code |-> 0]
  /\ instr' = Nop

\* The operands of instr are there, and its turn has come.
Executing(ops) ==
  /\ at = "exec"
  /\ instr.op \in ops
  /\ d_depth >= Arity(instr.op)

\* d_pop until the operands are gone.
Pop ==
  /\ d_depth' = d_depth - Arity(instr.op)
  /\ UNCHANGED d_stack

\* Mutant of PopPush: `>` instead of `>=` in the check of the limit.
PopPushOneMore(out) ==
  LET base == d_depth - Arity(instr.op)
      top  == Least(base + Len(out), PushLimit + 1)
  IN  /\ d_stack' = [s \in Slots |->
                       IF s \in (base + 1) .. top THEN out[s - base]
                                                  ELSE d_stack[s]]
      /\ d_depth' = top
      /\ Finish(IF base + Len(out) <= PushLimit + 1 THEN "Done" ELSE "Err")

\* Mutant of PopPush: the cells are written without the canary's offset.
PopPushNoOffset(out) ==
  LET base == d_depth - Arity(instr.op)
      top  == Least(base + Len(out), PushLimit)
  IN  /\ d_stack' = [s \in Slots |->
                       IF s \in base .. (top - 1) THEN out[s - base + 1]
                                                  ELSE d_stack[s]]
      /\ d_depth' = top
      /\ Finish(IF base + Len(out) <= PushLimit THEN "Done" ELSE "Err")

\* Pop the operands, then d_push the cells of out one by one until one is
\* refused.
PopPush(out) ==
  LET base == d_depth - Arity(instr.op)
      top  == Least(base + Len(out), PushLimit)
  IN  /\ d_stack' = [s \in Slots |->
                       IF s \in (base + 1) .. top THEN out[s - base]
                                                  ELSE d_stack[s]]
      /\ d_depth' = top
      /\ Finish(IF base + Len(out) <= PushLimit THEN "Done" ELSE "Err")

\* An instruction that only computes on the data stack.
Compute(ops, out) ==
  /\ Executing(ops)
  /\ PopPush(out)
  /\ UNCHANGED <<store, frames, ip, caller>>

\* An instruction that gives up after its pops.
Refuse(ops) ==
  /\ Executing(ops)
  /\ Pop
  /\ Finish("Err")
  /\ UNCHANGED <<store, frames, ip, caller>>

\* d_pop on an empty stack: the operands that were there are lost.
Underflow ==
  /\ at = "exec"
  /\ d_depth < Arity(instr.op)
  /\ d_depth' = 0
  /\ Finish("Err")
  /\ UNCHANGED <<d_stack, store, frames, ip, caller>>

-----------------------------------------------------------------------------
(***************************************************************************)
(* The head of step_tier1.                                                 *)
(***************************************************************************)
PastEnd ==
  /\ at = "step"
  /\ ~InCode(ip)
  /\ Finish("Stop")
  /\ UNCHANGED <<store, data, frames, ip, caller>>

Decode ==
  /\ at = "step"
  /\ InCode(ip)
  /\ instr' = code[ip + 1]
  /\ ip' = ip + 1
  /\ at' = "exec"
  /\ UNCHANGED <<result, host, driver, store, data, frames>>

(***************************************************************************)
(* Literals and the instructions that only compute on the data stack.      *)
(***************************************************************************)
Push == Compute({"Push"}, <<Wrap(instr.data)>>)

PushF ==
  /\ Executing({"PushF"})
  /\ IF f_depth < FLimit
     THEN f_depth' = f_depth + 1 /\ Finish("Done")
     ELSE UNCHANGED f_depth /\ Finish("Err")
  /\ UNCHANGED <<store, data, r_stack, c_stack, loop_stack, exception_stack, ip, caller>>

ArithmeticResult(op, b, a) ==
  CASE op = "Add" -> Wrap(b + a)
    [] op = "Sub" -> Wrap(b - a)
    [] OTHER      -> Wrap(b * a)

Arithmetic ==
  Compute(ArithmeticOps, <<ArithmeticResult(instr.op, Arg(2), Arg(1))>>)

Magnitude(x) == IF x < 0 THEN -x ELSE x

\* Division truncates towards zero; the remainder has the dividend's sign.
Quotient(b, a) ==
  LET q == Magnitude(b) \div Magnitude(a)
  IN  IF (b < 0) = (a < 0) THEN q ELSE -q

\* Mutant of Remainder: the Euclidean remainder, which is never negative.
RemainderEuclid(b, a) == b % Magnitude(a)

Remainder(b, a) == b - a * Quotient(b, a)

DivisionResult(op, b, a) ==
  CASE op = "Mod" -> <<Wrap(Remainder(b, a))>>
    [] op = "Div" -> <<Wrap(Quotient(b, a))>>
    [] OTHER      -> <<Wrap(Remainder(b, a)), Wrap(Quotient(b, a))>>

Divide ==
  /\ Executing(DivisionOps)
  /\ Arg(1) # 0
  /\ Compute(DivisionOps, DivisionResult(instr.op, Arg(2), Arg(1)))

\* Mod pops both operands before it looks at the divisor, Div and DivMod
\* only the divisor.
DivideByZero ==
  /\ Executing(DivisionOps)
  /\ Arg(1) = 0
  /\ d_depth' = d_depth - (IF instr.op = "Mod" THEN 2 ELSE 1)
  /\ Finish("Err")
  /\ UNCHANGED <<d_stack, store, frames, ip, caller>>

\* a is the top of the stack, b and c the cells below it.
Shuffled(op, c, b, a) ==
  CASE op = "Dup"   -> <<a, a>>
    [] op = "Drop"  -> <<>>
    [] op = "Swap"  -> <<a, b>>
    [] op = "Over"  -> <<b, a, b>>
    [] op = "Rot"   -> <<b, a, c>>
    [] op = "Nip"   -> <<a>>
    [] op = "Tuck"  -> <<a, b, a>>
    [] op = "Drop2" -> <<>>
    [] OTHER        -> <<b, a, b, a>>

Shuffle == Compute(ShuffleOps, Shuffled(instr.op, Arg(3), Arg(2), Arg(1)))

UnaryResult(op, a) ==
  CASE op = "Inc"    -> Wrap(a + 1)
    [] op = "Dec"    -> Wrap(a - 1)
    [] op = "Square" -> Wrap(a * a)
    [] op = "IsZero" -> Flag(a = 0)
    [] op = "Negate" -> Wrap(-a)
    [] OTHER         -> Wrap(-a - 1)

Unary == Compute(UnaryOps, <<UnaryResult(instr.op, Arg(1))>>)

AbsInRange ==
  /\ Executing({"Abs"})
  /\ Arg(1) # -Half
  /\ Compute({"Abs"}, <<Magnitude(Arg(1))>>)

\* i64::MIN.abs() overflows: a panic in a debug build, MIN itself otherwise.
AbsOverflow ==
  /\ Executing({"Abs"})
  /\ Arg(1) = -Half
  /\ IF OverflowChecks
     THEN Pop /\ Crash("Panic")
     ELSE PopPush(<<-Half>>)
  /\ UNCHANGED <<store, frames, ip, caller>>

Extreme ==
  Compute(ExtremeOps,
    <<IF (instr.op = "Max") = (Arg(1) >= Arg(2)) THEN Arg(1) ELSE Arg(2)>>)

BitResult(op, p, q) ==
  CASE op = "And" -> p * q
    [] op = "Or"  -> p + q - p * q
    [] OTHER      -> (p + q) % 2

BitLogic ==
  Compute(BitOps,
    <<CHOOSE v \in Val : \A i \in 0 .. (Width - 1) :
        Bit(v, i) = BitResult(instr.op, Bit(Arg(2), i), Bit(Arg(1), i))>>)

\* The count is truncated to CountBits bits, then capped.
ShiftCount(n) == Least(n % 2^CountBits, Width - 1)

Shift ==
  Compute(ShiftOps,
    <<IF instr.op = "LShift"
      THEN Wrap(Arg(2) * 2^ShiftCount(Arg(1)))
      ELSE Wrap((Arg(2) % (2 * Half)) \div 2^ShiftCount(Arg(1)))>>)

Compared(op, b, a) ==
  CASE op = "Eq" -> Flag(b = a)
    [] op = "Lt" -> Flag(b < a)
    [] OTHER     -> Flag(b > a)

Compare == Compute(CompareOps, <<Compared(instr.op, Arg(2), Arg(1))>>)

Constant ==
  Compute(ConstantOps,
    <<Wrap(CASE instr.op = "Depth" -> d_depth
             [] instr.op = "BL"    -> Blank
             [] OTHER              -> here)>>)

\* Output is not part of the state.
Output == Compute(OutputOps, <<>>)

Noop == Compute({"Noop"}, <<>>)

Pick ==
  LET left == d_depth - 1  \* the depth once the index is popped
  IN  /\ Executing({"Pick"})
      /\ Arg(1) \in 0 .. (left - 1)
      /\ Compute({"Pick"}, <<d_stack[left - Arg(1)]>>)

PickTooDeep ==
  /\ Executing({"Pick"})
  /\ Arg(1) \notin 0 .. (d_depth - 2)
  /\ Refuse({"Pick"})

\* The cell at distance n moves to the top, those above it down by one.
Roll ==
  /\ Executing({"Roll"})
  /\ LET left   == d_depth - 1
         target == left - Arg(1)
     IN  /\ Arg(1) \in 0 .. (left - 1) \cup {0}
         /\ d_depth' = left
         /\ d_stack' = [s \in Slots |->
                          CASE s \in target .. (left - 1) -> d_stack[s + 1]
                            [] s = left                   -> d_stack[target]
                            [] OTHER                      -> d_stack[s]]
  /\ Finish("Done")
  /\ UNCHANGED <<store, frames, ip, caller>>

RollTooDeep ==
  /\ Executing({"Roll"})
  /\ Arg(1) \notin 0 .. (d_depth - 2) \cup {0}
  /\ Refuse({"Roll"})

(***************************************************************************)
(* The return stack.  ToR pops its operand before it looks for room.       *)
(***************************************************************************)
ToR ==
  /\ Executing({"ToR"})
  /\ Pop
  /\ IF Len(r_stack) < RLimit
     THEN r_stack' = Append(r_stack, Arg(1)) /\ Finish("Done")
     ELSE UNCHANGED r_stack /\ Finish("Err")
  /\ UNCHANGED <<store, f_depth, c_stack, loop_stack, exception_stack, ip, caller>>

\* The value is lost when the data stack has no room for it.
FromR ==
  /\ Executing({"FromR"})
  /\ r_stack # <<>>
  /\ r_stack' = Front(r_stack)
  /\ PopPush(<<Last(r_stack)>>)
  /\ UNCHANGED <<store, f_depth, c_stack, loop_stack, exception_stack, ip, caller>>

RFetch ==
  /\ r_stack # <<>>
  /\ Compute({"RFetch"}, <<Last(r_stack)>>)

EmptyR ==
  /\ r_stack = <<>>
  /\ Refuse({"FromR", "RFetch"})

(***************************************************************************)
(* Counted loops: two cells of loop_stack for each, the limit below the    *)
(* index.  A loop edge is not checked against the end of the code.         *)
(***************************************************************************)
Do ==
  /\ Executing({"Do"})
  /\ Len(loop_stack) + 2 <= 2 * MaxLoops
  /\ Pop
  /\ loop_stack' = loop_stack \o <<Arg(2), Arg(1)>>
  /\ Finish("Done")
  /\ UNCHANGED <<store, f_depth, r_stack, c_stack, exception_stack, ip, caller>>

LoopNext(delta) == Wrap(Last(loop_stack) + delta)

LoopLimit == loop_stack[Len(loop_stack) - 1]

\* Mutant of LoopEdge: the end of a loop drops the index and not the limit.
LoopEdgeHalf(again, next) ==
  IF again
  THEN /\ loop_stack' = [loop_stack EXCEPT ![Len(loop_stack)] = next]
       /\ ip' = ip + instr.data
  ELSE /\ loop_stack' = SubSeq(loop_stack, 1, Len(loop_stack) - 1)
       /\ UNCHANGED ip

LoopEdge(again, next) ==
  IF again
  THEN /\ loop_stack' = [loop_stack EXCEPT ![Len(loop_stack)] = next]
       /\ ip' = ip + instr.data
  ELSE /\ loop_stack' = SubSeq(loop_stack, 1, Len(loop_stack) - 2)
       /\ UNCHANGED ip

Loop ==
  /\ Executing({"Loop"})
  /\ Len(loop_stack) >= 2
  /\ LoopEdge(LoopNext(1) < LoopLimit, LoopNext(1))
  /\ Finish("Done")
  /\ UNCHANGED <<store, data, f_depth, r_stack, c_stack, exception_stack, caller>>

PLoop ==
  /\ Executing({"PLoop"})
  /\ Len(loop_stack) >= 2
  /\ Pop
  /\ LoopEdge(IF Arg(1) >= 0 THEN LoopNext(Arg(1)) < LoopLimit
                             ELSE LoopNext(Arg(1)) >= LoopLimit,
              LoopNext(Arg(1)))
  /\ Finish("Done")
  /\ UNCHANGED <<store, f_depth, r_stack, c_stack, exception_stack, caller>>

NotInLoop ==
  \/ Len(loop_stack) < 2 /\ Refuse({"Loop", "PLoop"})
  \/ Len(loop_stack) < 1 /\ Refuse({"I"})
  \/ Len(loop_stack) < 4 /\ Refuse({"J"})

I ==
  /\ Len(loop_stack) >= 1
  /\ Compute({"I"}, <<Last(loop_stack)>>)

J ==
  /\ Len(loop_stack) >= 4
  /\ Compute({"J"}, <<loop_stack[Len(loop_stack) - 2]>>)

(***************************************************************************)
(* Jumps inside the code.  The target is relative to the next instruction. *)
(***************************************************************************)
Target == ip + instr.data

GoTo(target) ==
  IF InCode(target) THEN ip' = target /\ Finish("Done")
                    ELSE UNCHANGED ip /\ Finish("Err")

Jump ==
  /\ Executing({"Jump"})
  /\ GoTo(Target)
  /\ UNCHANGED <<store, data, frames, caller>>

JZ ==
  /\ Executing({"JZ"})
  /\ Pop
  /\ IF Arg(1) = 0 THEN GoTo(Target) ELSE UNCHANGED ip /\ Finish("Done")
  /\ UNCHANGED <<store, frames, caller>>

(***************************************************************************)
(* Words.  A Call pushes its frame before it looks the word up; of a       *)
(* primitive it runs nothing.  A Ret with no frame ends the run.           *)
(***************************************************************************)
IsWord(xt) == xt \in 0 .. (Len(dict) - 1)

\* Mutant of Call: the frame holds the address of the Call itself.
CallReturnsToItself ==
  /\ Executing({"Call"})
  /\ Len(c_stack) < MaxCalls
  /\ IsWord(instr.data)
  /\ c_stack' = Append(c_stack, ip - 1)
  /\ LET entry == dict[instr.data + 1]
     IN  ip' = IF entry.kind = "word" THEN entry.addr ELSE ip
  /\ Finish("Done")
  /\ UNCHANGED <<store, data, f_depth, r_stack, loop_stack, exception_stack, caller>>

Call ==
  /\ Executing({"Call"})
  /\ Len(c_stack) < MaxCalls
  /\ IsWord(instr.data)
  /\ c_stack' = Append(c_stack, ip)
  /\ LET entry == dict[instr.data + 1]
     IN  ip' = IF entry.kind = "word" THEN entry.addr ELSE ip
  /\ Finish("Done")
  /\ UNCHANGED <<store, data, f_depth, r_stack, loop_stack, exception_stack, caller>>

\* The dictionary is indexed without a check.
CallNoWord ==
  /\ Executing({"Call"})
  /\ ~IsWord(instr.data)
  /\ Crash("Panic")
  /\ UNCHANGED <<store, data, frames, ip, caller>>

Ret ==
  /\ Executing({"Ret"})
  /\ c_stack # <<>>
  /\ ip' = Last(c_stack)
  /\ c_stack' = Front(c_stack)
  /\ Finish("Done")
  /\ UNCHANGED <<store, data, f_depth, r_stack, loop_stack, exception_stack, caller>>

\* The head of execute_word: a primitive is executed at once, with no data;
\* a defined word is stepped from its first instruction.
EnterWord(entry) ==
  /\ host' = Append(host, [kind |-> entry.kind, old_ip |-> ip,
                           old_c_depth |-> Len(c_stack)])
  /\ IF entry.kind = "prim"
     THEN at' = "exec" /\ instr' = [op |-> entry.op, data |-> 0]
          /\ UNCHANGED ip
     ELSE at' = "step" /\ instr' = Nop /\ ip' = entry.addr

Execute ==
  /\ Executing({"Execute"})
  /\ Len(host) < MaxHosts
  /\ IsWord(Arg(1))
  /\ Pop
  /\ EnterWord(dict[Arg(1) + 1])
  /\ UNCHANGED <<result, driver, store, frames>>

ExecuteNoWord ==
  /\ Executing({"Execute"})
  /\ ~IsWord(Arg(1))
  /\ Refuse({"Execute"})

(***************************************************************************)
(* Exceptions and the other statuses.                                      *)
(***************************************************************************)
Catch ==
  /\ Executing({"Catch"})
  /\ Len(exception_stack) < MaxCatches
  /\ exception_stack' =
       Append(exception_stack,
              [d_depth |-> d_depth, r_depth |-> Len(r_stack),
               c_depth |-> Len(c_stack), handler_ip |-> ip])
  /\ Finish("Done")
  /\ UNCHANGED <<store, data, f_depth, r_stack, c_stack, loop_stack, ip, caller>>

Throw ==
  /\ Executing({"Throw"})
  /\ Pop
  /\ IF Arg(1) = 0 THEN Finish("Done") ELSE Return("Thrown", Arg(1))
  /\ UNCHANGED <<store, frames, ip, caller>>

Yield ==
  /\ Executing({"Yield"})
  /\ Finish("Yielded")
  /\ UNCHANGED <<store, data, frames, ip, caller>>

Stop ==
  /\ \/ Executing({"Stop"})
     \/ Executing({"Ret"}) /\ c_stack = <<>>
  /\ Finish("Stop")
  /\ UNCHANGED <<store, data, frames, ip, caller>>

(***************************************************************************)
(* Data space.  read_i64 and write_i64 compare a + 8 with the size: for    *)
(* an address of -8 .. -1 the sum wraps to one that passes, and the slice  *)
(* that follows panics.                                                    *)
(***************************************************************************)
WrapsPast(a) == a \in (-CellBytes) .. (-1)

CellFits(a) == a >= 0 /\ a + CellBytes <= MemSize

\* i64::from_le_bytes
CellAt(a) ==
  CHOOSE v \in Val : Bytes(v) = [i \in 0 .. (CellBytes - 1) |-> mem[a + i]]

WithCell(a, v) ==
  [x \in Addr |-> IF x \in a .. (a + CellBytes - 1) THEN Bytes(v)[x - a]
                                                    ELSE mem[x]]

FetchCell ==
  /\ Executing({"Fetch"})
  /\ CellFits(Arg(1))
  /\ Compute({"Fetch"}, <<CellAt(Arg(1))>>)

StoreCell ==
  /\ Executing({"Store"})
  /\ CellFits(Arg(1))
  /\ Pop
  /\ mem' = WithCell(Arg(1), Arg(2))
  /\ Finish("Done")
  /\ UNCHANGED <<code, dict, here, frames, ip, caller>>

FetchC ==
  /\ Executing({"FetchC"})
  /\ Arg(1) \in Addr
  /\ Compute({"FetchC"}, <<Wrap(mem[Arg(1)])>>)

StoreC ==
  /\ Executing({"StoreC"})
  /\ Arg(1) \in Addr
  /\ Pop
  /\ mem' = [mem EXCEPT ![Arg(1)] = Arg(2) % 2^ByteBits]
  /\ Finish("Done")
  /\ UNCHANGED <<code, dict, here, frames, ip, caller>>

OutOfMemory ==
  \/ /\ Executing({"Fetch", "Store"})
     /\ ~CellFits(Arg(1)) /\ ~WrapsPast(Arg(1))
     /\ Refuse({"Fetch", "Store"})
  \/ /\ Executing({"FetchC", "StoreC"})
     /\ Arg(1) \notin Addr
     /\ Refuse({"FetchC", "StoreC"})

AddressWraps ==
  /\ Executing({"Fetch", "Store"})
  /\ WrapsPast(Arg(1))
  /\ Pop
  /\ Crash("Panic")
  /\ UNCHANGED <<store, frames, ip, caller>>

\* The dictionary pointer, rounded up to a cell.
Aligned(h) == h + ((CellBytes - (h % CellBytes)) % CellBytes)

\* Mutant of Comma: allot refuses the last cell, which write_i64 accepts.
CommaOffByOne ==
  /\ Executing({"Comma"})
  /\ CellFits(here)
  /\ Pop
  /\ mem' = WithCell(here, Arg(1))
  /\ IF CellFits(Aligned(here) + 1)
     THEN here' = Aligned(here) + CellBytes /\ Finish("Done")
     ELSE UNCHANGED here /\ Finish("Err")
  /\ UNCHANGED <<code, dict, frames, ip, caller>>

\* Comma writes its cell at here as it stands, and only then does allot
\* round here up: the write stays when allot refuses.
Comma ==
  /\ Executing({"Comma"})
  /\ CellFits(here)
  /\ Pop
  /\ mem' = WithCell(here, Arg(1))
  /\ IF CellFits(Aligned(here))
     THEN here' = Aligned(here) + CellBytes /\ Finish("Done")
     ELSE UNCHANGED here /\ Finish("Err")
  /\ UNCHANGED <<code, dict, frames, ip, caller>>

CommaNoRoom ==
  /\ ~CellFits(here)
  /\ Refuse({"Comma"})

\* A negative count is a huge usize.  When it brings the sum past zero the
\* addition overflows: a panic in a debug build, in a release build here
\* moves back.
Allot ==
  /\ Executing({"Allot"})
  /\ Pop
  /\ LET end == Aligned(here) + Arg(1)
     IN  CASE end \notin 0 .. MemSize -> UNCHANGED here /\ Finish("Err")
           [] end \in 0 .. MemSize /\ Arg(1) < 0 /\ OverflowChecks ->
                UNCHANGED here /\ Crash("Panic")
           [] OTHER -> here' = end /\ Finish("Done")
  /\ UNCHANGED <<code, dict, mem, frames, ip, caller>>

\* Self-modifying code: the xt is not checked until the Call runs.
CompileComma ==
  /\ Executing({"CompileComma"})
  /\ Len(code) < MaxCode
  /\ Pop
  /\ code' = Append(code, [op |-> "Call", data |-> Arg(1)])
  /\ Finish("Done")
  /\ UNCHANGED <<dict, mem, here, frames, ip, caller>>

\* A vector or the native stack is at its bound.
Exhaust ==
  /\ \/ Executing({"Call"}) /\ IsWord(instr.data) /\ Len(c_stack) >= MaxCalls
     \/ Executing({"Execute"}) /\ IsWord(Arg(1)) /\ Len(host) >= MaxHosts
     \/ Executing({"Do"}) /\ Len(loop_stack) + 2 > 2 * MaxLoops
     \/ Executing({"Catch"}) /\ Len(exception_stack) >= MaxCatches
     \/ Executing({"CompileComma"}) /\ Len(code) >= MaxCode
  /\ Crash("Exhausted")
  /\ UNCHANGED <<store, data, frames, ip, caller>>

-----------------------------------------------------------------------------
(***************************************************************************)
(* The tail of execute_word, and of Op::Execute around it.                 *)
(***************************************************************************)
Returned(status) == at = "result" /\ result.status = status

CallerOfHost == Last(host)

\* Mutant of WordGoesOn: the loop ends one frame too late.
WordGoesOnLonger ==
  /\ Returned("Done")
  /\ host # <<>>
  /\ CallerOfHost.kind = "word"
  /\ Len(c_stack) + 1 >= CallerOfHost.old_c_depth
  /\ at' = "step"
  /\ UNCHANGED <<result, instr, store, data, frames, ip, caller>>

\* The loop of execute_word goes on until the call stack is below what it
\* was at entry.
WordGoesOn ==
  /\ Returned("Done")
  /\ host # <<>>
  /\ CallerOfHost.kind = "word"
  /\ Len(c_stack) >= CallerOfHost.old_c_depth
  /\ at' = "step"
  /\ UNCHANGED <<result, instr, store, data, frames, ip, caller>>

\* execute_word returns.  Op::Execute drops the status it returns; only
\* the text interpreter looks at it.
WordReturns ==
  /\ at = "result" /\ result.status # "Err"
  /\ host # <<>>
  /\ \/ CallerOfHost.kind = "prim"
     \/ result.status # "Done"
     \/ Len(c_stack) < CallerOfHost.old_c_depth
  /\ host' = Front(host)
  /\ ip' = IF CallerOfHost.kind = "word" THEN CallerOfHost.old_ip ELSE ip
  /\ result' = IF Len(host) = 1 /\ driver = "interpret_loop" THEN result
                                                             ELSE Done
  /\ UNCHANGED <<at, instr, driver, store, data, frames>>

\* `?` takes an error through every execute_word at once; ip stays where
\* the error left it.
ErrorEscapes ==
  /\ Returned("Err")
  /\ host # <<>>
  /\ host' = <<>>
  /\ UNCHANGED <<at, instr, result, ip, driver, store, data, frames>>

(***************************************************************************)
(* run_loop and unwind_to_handler.                                         *)
(***************************************************************************)
RunLoopGets(status) ==
  /\ Returned(status)
  /\ host = <<>>
  /\ driver = "run_loop"

KeepRunning ==
  /\ RunLoopGets("Done")
  /\ at' = "step"
  /\ UNCHANGED <<result, instr, store, data, frames, ip, caller>>

RunEnds ==
  /\ RunLoopGets("Stop") \/ RunLoopGets("Yielded")
  /\ at' = "idle"
  /\ result' = Done
  /\ UNCHANGED <<instr, store, data, frames, ip, caller>>

Truncate(s, n) == IF n <= Len(s) THEN SubSeq(s, 1, n) ELSE s

\* Mutant of Unwind: the handler's code is written without looking for room.
UnwindNoRoomCheck(code_) ==
  LET frame == Last(exception_stack)
  IN  /\ exception_stack # <<>>
      /\ exception_stack' = Front(exception_stack)
      /\ d_depth' = Least(frame.d_depth + 1, PushLimit)
      /\ d_stack' = [d_stack EXCEPT ![frame.d_depth + 1] = code_]
      /\ r_stack' = Truncate(r_stack, frame.r_depth)
      /\ c_stack' = Truncate(c_stack, frame.c_depth)
      /\ ip' = frame.handler_ip
      /\ at' = "step"
      /\ result' = Done
      /\ UNCHANGED <<instr, f_depth, loop_stack, host, driver, store>>

\* Mutant of Unwind: the handler is read and not popped.
UnwindKeepsHandler(code_) ==
  LET frame == Last(exception_stack)
      room  == frame.d_depth < PushLimit
  IN  /\ exception_stack # <<>>
      /\ d_depth' = IF room THEN frame.d_depth + 1 ELSE frame.d_depth
      /\ d_stack' = IF room THEN [d_stack EXCEPT ![frame.d_depth + 1] = code_]
                            ELSE d_stack
      /\ r_stack' = Truncate(r_stack, frame.r_depth)
      /\ c_stack' = Truncate(c_stack, frame.c_depth)
      /\ ip' = frame.handler_ip
      /\ at' = IF room THEN "step" ELSE "idle"
      /\ result' = [status |-> IF room THEN "Done" ELSE "Err", code |-> 0]
      /\ UNCHANGED <<instr, exception_stack, f_depth, loop_stack, host, driver, store>>

\* The depth goes back to the frame's, up as well as down: cells above the
\* current depth come back as they were last written.  The handler is gone
\* even when its code finds no room on the data stack.
Unwind(code_) ==
  LET frame == Last(exception_stack)
      room  == frame.d_depth < PushLimit
  IN  /\ exception_stack # <<>>
      /\ exception_stack' = Front(exception_stack)
      /\ d_depth' = IF room THEN frame.d_depth + 1 ELSE frame.d_depth
      /\ d_stack' = IF room THEN [d_stack EXCEPT ![frame.d_depth + 1] = code_]
                            ELSE d_stack
      /\ r_stack' = Truncate(r_stack, frame.r_depth)
      /\ c_stack' = Truncate(c_stack, frame.c_depth)
      /\ ip' = frame.handler_ip
      /\ at' = IF room THEN "step" ELSE "idle"
      /\ result' = [status |-> IF room THEN "Done" ELSE "Err", code |-> 0]
      /\ UNCHANGED <<instr, f_depth, loop_stack, host, driver, store>>

UnwindThrow == RunLoopGets("Thrown") /\ Unwind(result.code)

UnwindError == RunLoopGets("Err") /\ Unwind(-1)

NoHandler ==
  /\ RunLoopGets("Thrown") \/ RunLoopGets("Err")
  /\ exception_stack = <<>>
  /\ at' = "idle"
  /\ result' = [status |-> "Err", code |-> 0]
  /\ UNCHANGED <<instr, store, data, frames, ip, caller>>

(***************************************************************************)
(* The text interpreter, while it is not compiling, and the library's      *)
(* other callers: a number is pushed, a word executed, the code run from   *)
(* wherever ip is.                                                         *)
(***************************************************************************)
\* d_push outside the bytecode, its error given to the caller.
TextPush(v) ==
  IF d_depth < PushLimit
  THEN /\ d_stack' = [d_stack EXCEPT ![d_depth + 1] = v]
       /\ d_depth' = d_depth + 1
       /\ result' = Done
  ELSE /\ UNCHANGED data
       /\ result' = [status |-> "Err", code |-> 0]

InterpretNumber ==
  /\ at = "idle"
  /\ \E v \in Literals : TextPush(v)
  /\ UNCHANGED <<at, instr, store, frames, ip, caller>>

InterpretXt(xt) ==
  /\ at = "idle"
  /\ EnterWord(dict[xt + 1])
  /\ driver' = "interpret_loop"
  /\ result' = Done
  /\ UNCHANGED <<store, data, frames>>

InterpretWord == \E xt \in 0 .. (Len(dict) - 1) : InterpretXt(xt)

InterpretReturns ==
  /\ at = "result"
  /\ host = <<>>
  /\ driver = "interpret_loop"
  /\ at' = "idle"
  /\ UNCHANGED <<instr, result, store, data, frames, ip, caller>>

StartRun ==
  /\ at = "idle"
  /\ at' = "step"
  /\ driver' = "run_loop"
  /\ result' = Done
  /\ UNCHANGED <<instr, ip, host, store, data, frames>>

\* After a crash there is no process; the stutter stands for its absence.
Crashed == at = "crash" /\ UNCHANGED vars

-----------------------------------------------------------------------------
Init ==
  /\ \E p \in Programs : code = p.code /\ dict = p.dict
  /\ mem = [a \in Addr |-> 0] /\ here = 0
  /\ d_stack = [s \in Slots |-> IF s \in {0, StackSlots - 1}
                                THEN CANARY_VALUE ELSE 0]
  /\ d_depth = 0 /\ f_depth = 0
  /\ r_stack = <<>> /\ c_stack = <<>>
  /\ loop_stack = <<>> /\ exception_stack = <<>>
  /\ ip = 0 /\ at = "idle" /\ instr = Nop /\ result = Done
  /\ host = <<>> /\ driver = "run_loop"

ComputeStep ==
  \/ Push \/ PushF \/ Arithmetic \/ Divide \/ DivideByZero \/ Shuffle
  \/ Unary \/ AbsInRange \/ AbsOverflow \/ Extreme \/ BitLogic \/ Shift
  \/ Compare \/ Constant \/ Output \/ Noop
  \/ Pick \/ PickTooDeep \/ Roll \/ RollTooDeep

FrameStep ==
  \/ ToR \/ FromR \/ RFetch \/ EmptyR
  \/ Do \/ Loop \/ PLoop \/ NotInLoop \/ I \/ J

MemoryStep ==
  \/ FetchCell \/ StoreCell \/ FetchC \/ StoreC \/ OutOfMemory \/ AddressWraps
  \/ Comma \/ CommaNoRoom \/ Allot \/ CompileComma

ControlStep ==
  \/ Jump \/ JZ \/ Call \/ CallNoWord \/ Ret \/ Execute \/ ExecuteNoWord
  \/ Catch \/ Throw \/ Yield \/ Stop

ReturnStep ==
  \/ WordGoesOn \/ WordReturns \/ ErrorEscapes \/ KeepRunning \/ RunEnds
  \/ UnwindThrow \/ UnwindError \/ NoHandler \/ InterpretReturns

VmStep ==
  \/ PastEnd \/ Decode \/ Underflow \/ Exhaust
  \/ ComputeStep \/ FrameStep \/ MemoryStep \/ ControlStep \/ ReturnStep

HostStep == InterpretNumber \/ InterpretWord \/ StartRun

Next == VmStep \/ HostStep \/ Crashed

Spec == Init /\ [][Next]_vars

\* One thread runs the interpreter, and nothing in it waits.
Fairness == WF_vars(VmStep)

FairSpec == Spec /\ Fairness

-----------------------------------------------------------------------------
(***************************************************************************)
(* Properties.                                                             *)
(***************************************************************************)
Frame == [d_depth : 0 .. PushLimit, r_depth : Nat, c_depth : Nat,
          handler_ip : Int]

HostFrame == [kind : {"prim", "word"}, old_ip : Int, old_c_depth : Nat]

StoreType ==
  /\ code \in Seq(Instruction) /\ dict \in Seq(Entry)
  /\ mem \in [Addr -> Byte] /\ here \in 0 .. MemSize

DataType ==
  /\ d_stack \in [Slots -> Val \cup {CANARY_VALUE}]
  /\ \A s \in 1 .. (StackSlots - 2) : d_stack[s] \in Val
  /\ d_depth \in 0 .. PushLimit

FramesType ==
  /\ f_depth \in 0 .. FLimit
  /\ r_stack \in Seq(Val) /\ Len(r_stack) <= RLimit
  /\ c_stack \in Seq(Int) /\ loop_stack \in Seq(Val)
  /\ exception_stack \in Seq(Frame)

ControlType ==
  /\ ip \in Int /\ instr \in Instruction
  /\ at \in {"idle", "step", "exec", "result", "crash"}
  /\ result \in [status : Status, code : Val]
  /\ host \in Seq(HostFrame) /\ driver \in {"run_loop", "interpret_loop"}

\* The types, and the limits of the bounded stacks: no instruction, refused
\* push or unwind takes the data, float or return stack past its limit or
\* leaves a cell that is no word.
TypeOK == StoreType /\ DataType /\ FramesType /\ ControlType

\* Vm::verify_canaries, which nothing calls: no sequence of pushes, unwinds
\* and refused pushes writes the words at the ends of the stack region.
CanariesIntact ==
  /\ d_stack[0] = CANARY_VALUE
  /\ d_stack[StackSlots - 1] = CANARY_VALUE

\* An instruction of execute_op, also one that fails halfway through its
\* pops and pushes, leaves every cell below its operands on the stack and as
\* it was.  Roll reaches deeper by design.
OnlyOperandsTouched ==
  [][at = "exec" /\ instr.op # "Roll" =>
       \A s \in 1 .. (d_depth - Arity(instr.op)) :
         d_stack'[s] = d_stack[s] /\ s <= d_depth']_vars

\* The quotient DivMod leaves on top and the remainder below it reconstruct
\* the dividend, the quotient truncated, the one overflow wrapped.
DivisionIsExact ==
  [][instr.op = "DivMod" /\ result'.status = "Done" /\ at = "exec" =>
       LET b == Arg(2)                  q == d_stack'[d_depth]
           a == Arg(1)                  r == d_stack'[d_depth - 1]
       IN  /\ Wrap(q * a + r) = b
           /\ Magnitude(r) < Magnitude(a)
           /\ r # 0 => (r < 0) = (b < 0)]_vars

\* Every frame of the call stack returns to the instruction after a Call,
\* whatever was truncated by exceptions, popped by executed words, or
\* compiled at the end of the code in between.
FramesFollowCalls ==
  \A k \in 1 .. Len(c_stack) :
    c_stack[k] \in 1 .. Len(code) /\ code[c_stack[k]].op = "Call"

\* While execute_word calls are active the call stack is never shorter than
\* at the entry of the innermost, but for the one Ret that ends it; the
\* entries of nested calls are in order; and a caller that has control back
\* has no execute_word left behind.
HostNesting ==
  /\ \A i, j \in 1 .. Len(host) :
       i < j => host[i].old_c_depth <= host[j].old_c_depth
  /\ host # <<>> =>
       Last(host).old_c_depth <= Len(c_stack) + (IF at = "result" THEN 1
                                                                  ELSE 0)
  /\ at = "idle" => host = <<>>

\* Loop parameters come and go in pairs, so the index and the limit are
\* never taken for one another: an exception or a jump may leave a loop, but
\* never half of one.
LoopPaired == Len(loop_stack) % 2 = 0

\* Comma's write and its allot succeed or fail together although each has
\* its own bounds check, at another address.
CommaIsAtomic ==
  [][instr.op = "Comma" /\ at = "exec" =>
       \/ UNCHANGED <<mem, here>>
       \/ result'.status = "Done" /\ here' >= here + CellBytes]_vars

\* Whoever starts the interpreter gets control back.
EveryRunReturns == (at = "step") ~> (at = "idle")

(***************************************************************************)
(* Claims of the documents that the code does not keep.                    *)
(***************************************************************************)
\* README.md:14: standard EXECUTE.  Control goes on behind the EXECUTE, for
\* execute_word puts ip back (execution.rs:541), and the word that holds it
\* still has its frame: the executed one has not returned in its place.
ExecuteReturnsToCaller ==
  [][WordReturns /\ host[Len(host)].kind = "word" /\ result.status = "Done"
       => Len(c_stack) = host[Len(host)].old_c_depth]_vars

\* lib.rs:57: run_loop returns an error for an unhandled exception.  A throw
\* that no handler takes is never turned into Done.
UnhandledThrowIsReported ==
  [][result.status = "Thrown" /\ at = "result" /\ exception_stack = <<>>
       => result'.status \in {"Thrown", "Err"}]_vars

=============================================================================
