------------------------- MODULE ContractRunProofs -------------------------
(***************************************************************************)
(* Theorems about ContractRun: what the contract of an accepted sequence   *)
(* says is what a run of it does, for every sequence and every stack.      *)
(***************************************************************************)
EXTENDS ContractRun, VmProofs, ContractProofs

-----------------------------------------------------------------------------
(***************************************************************************)
(* What one instruction does, and what its contract says.                  *)
(***************************************************************************)
LEMMA InstructionsAreExecuted == Instruction \subseteq Executed
<1>1. PrimitiveOps \cup CodeOps \subseteq Contracted \cup Opaque
  BY DEF PrimitiveOps, ArithmeticOps, DivisionOps, ShuffleOps, UnaryOps, BitOps, ShiftOps,
         ExtremeOps, CompareOps, ConstantOps, OutputOps, MemoryOps, CodeOps, Contracted, Opaque
<1> QED
  BY <1>1 DEF Instruction, Executed

\* The ops whose contract holds.
Honest == Contracted \ Mistaken

\* An honest contract takes what execute_op pops.
LEMMA HonestArity == \A op \in Honest : Arity(op) = DataEffect[op].pop
<1> SUFFICES ASSUME NEW op \in Honest PROVE Arity(op) = DataEffect[op].pop
  OBVIOUS
<1>1. op \in Contracted /\ op \notin Mistaken
  BY DEF Honest
<1>2. CASE op \in {"Noop", "Cr", "Jump", "DoesJump", "DoesPatch", "Push", "FromR", "I"}
  BY <1>1, <1>2 DEF Arity, TakesOne, TakesTwo, ArithmeticOps, DivisionOps, BitOps, ShiftOps,
     ExtremeOps, CompareOps, UnaryOps, DataEffect, Takes
<1>3. CASE op \in {"Drop", "ToR", "Dot", "Emit", "Throw", "JZ", "Square", "Inc", "Dec",
                   "IsZero", "Fetch", "Dup"}
  <2>1. op \in TakesOne
    BY <1>3 DEF TakesOne, UnaryOps
  <2>2. DataEffect[op].pop = 1
    BY <1>1, <1>3 DEF DataEffect, Takes
  <2> QED
    BY <2>1, <2>2, Arities
<1>4. CASE op \in {"Drop2", "Store", "Do", "Nip", "Add", "Sub", "Mul", "Div", "Eq", "Lt",
                   "Gt", "Swap", "Tuck", "Dup2"}
  <2>1. op \in TakesTwo
    BY <1>4 DEF TakesTwo, ArithmeticOps, DivisionOps, CompareOps
  <2>2. DataEffect[op].pop = 2
    BY <1>1, <1>4 DEF DataEffect, Takes
  <2> QED
    BY <2>1, <2>2, Arities
<1>5. CASE op = "Rot"
  <2>1. DataEffect[op].pop = 3
    BY <1>1, <1>5 DEF DataEffect, Takes
  <2> QED
    BY <1>5, <2>1, Arities
<1> QED
  BY <1>1, <1>2, <1>3, <1>4, <1>5 DEF Contracted, Mistaken

Pops == DataEffect[instr.op].pop

Pushed == DataEffect[instr.op].push

\* The cells on the stacks that a contract counts together.
Returns == Len(r_stack) + Len(loop_stack)

\* A step that does what the contract of its instruction says, or less when
\* it fails.
AsContracted ==
  /\ UNCHANGED <<code, exception_stack, host, driver>>
  /\ at' \in {"result", "crash"}
  /\ d_depth' >= d_depth - Pops
  /\ d_depth' <= d_depth \/ d_depth' <= d_depth - Pops + Pushed
  /\ at' = "result" /\ result'.status = "Done" =>
       /\ ip' \in Exits(instr, ip)
       /\ d_depth' = d_depth - Pops + Pushed
       /\ Returns' = Returns - ReturnEffect[instr.op].pop + ReturnEffect[instr.op].push

\* The instructions that only compute on the data stack, or leave the other
\* stacks alone.
Local == Contracted \ {"Jump", "JZ", "FromR", "RFetch", "ToR", "Do", "Loop", "PLoop"}

LEMMA LocalEffect ==
  ASSUME NEW op \in Local
  PROVE  /\ ReturnEffect[op] = Takes(0, 0)
         /\ \A ins, p : ins.op = op => Exits(ins, p) = {p}
  BY DEF Local, ReturnEffect, Exits, Contracted

LEMMA Depths0 ==
  ASSUME TypeOK, instr.op \in Honest, d_depth >= Arity(instr.op)
  PROVE  /\ d_depth \in Nat /\ Pops \in 0 .. 3 /\ Pushed \in 0 .. 4 /\ Pops = Arity(instr.op)
         /\ d_depth - Pops \in 0 .. PushLimit /\ PushLimit \in Nat
         /\ Returns \in Nat
<1>1. DataEffect[instr.op] \in [pop : 0 .. 3, push : 0 .. 4]
  BY DataEffectType DEF Honest
<1>2. Pops \in 0 .. 3 /\ Pushed \in 0 .. 4 /\ Pops = Arity(instr.op)
  BY <1>1, HonestArity DEF Pops, Pushed
<1>3. d_depth \in 0 .. PushLimit /\ PushLimit \in Nat
  BY StackAssumption DEF TypeOK, DataType
<1>4. Returns \in Nat
  <2>1. Len(r_stack) \in Nat /\ Len(loop_stack) \in Nat
    BY LenProperties DEF TypeOK, FramesType
  <2> QED
    BY <2>1 DEF Returns
<1> QED
  BY <1>2, <1>3, <1>4

\* PopPush pops what the contract takes, and pushes all of out or fails.
LEMMA PushedDepth ==
  ASSUME TypeOK, instr.op \in Honest, d_depth >= Arity(instr.op),
         NEW out, Len(out) = Pushed, PopPush(out)
  PROVE  /\ at' = "result"
         /\ d_depth' \in d_depth - Pops .. d_depth - Pops + Pushed
         /\ result'.status = "Done" => d_depth' = d_depth - Pops + Pushed
<1> DEFINE left == d_depth - Arity(instr.op)
<1>1. /\ d_depth' = Least(left + Len(out), PushLimit)
      /\ Finish(IF left + Len(out) <= PushLimit THEN "Done" ELSE "Err")
  BY DEF PopPush
<1>2. left = d_depth - Pops /\ left \in 0 .. PushLimit /\ PushLimit \in Nat /\ Pushed \in 0 .. 4
  BY Depths0
<1> HIDE DEF left
<1>3. at' = "result" /\ (result'.status = "Done" => left + Len(out) <= PushLimit)
  BY <1>1 DEF Finish, Return
<1> QED
  BY <1>1, <1>2, <1>3 DEF Least

LEMMA ComputeAsContracted ==
  ASSUME TypeOK, NEW ops, NEW out, Compute(ops, out), Len(out) = Pushed,
         instr.op \in Honest, instr.op \in Local
  PROVE  AsContracted
<1>1. /\ PopPush(out) /\ d_depth >= Arity(instr.op)
      /\ UNCHANGED <<store, frames, ip, caller>>
  BY DEF Compute, Executing
<1>2. ip' \in Exits(instr, ip) /\ ReturnEffect[instr.op].pop = 0 /\ ReturnEffect[instr.op].push = 0
  BY <1>1, LocalEffect DEF Takes
<1>3. UNCHANGED <<code, exception_stack, host, driver>> /\ Returns' = Returns
  BY <1>1 DEF store, frames, caller, Returns
<1> QED
  BY <1>1, <1>2, <1>3, PushedDepth, Depths0 DEF AsContracted

\* An instruction that fails after some of its pops.
LEMMA FailsAsContracted ==
  ASSUME TypeOK, instr.op \in Honest, d_depth >= Arity(instr.op),
         UNCHANGED <<code, exception_stack, host, driver>>,
         (at' = "result" /\ result'.status # "Done") \/ at' = "crash",
         d_depth' \in d_depth - Arity(instr.op) .. d_depth
  PROVE  AsContracted
  BY Depths0 DEF AsContracted

\* An instruction that pops its operands and pushes none.
LEMMA PopAsContracted ==
  ASSUME TypeOK, instr.op \in Honest, d_depth >= Arity(instr.op),
         UNCHANGED <<code, exception_stack, host, driver>>,
         at' = "result", Pop, Pushed = 0,
         result'.status = "Done" =>
           /\ ip' \in Exits(instr, ip)
           /\ Returns' = Returns - ReturnEffect[instr.op].pop + ReturnEffect[instr.op].push
  PROVE  AsContracted
  BY Depths0 DEF AsContracted, Pop

\* How many cells the contracts push.
LEMMA PushCounts ==
  ASSUME NEW op
  PROVE  /\ op \in {"Noop", "Cr", "Drop", "ToR", "Dot", "Emit", "Throw", "JZ", "Drop2",
                    "Store", "Do", "Jump"} => DataEffect[op].push = 0
         /\ op \in {"Push", "FromR", "I", "Square", "Inc", "Dec", "IsZero", "Fetch", "Nip",
                    "Add", "Sub", "Mul", "Div", "Eq", "Lt", "Gt"} => DataEffect[op].push = 1
         /\ op \in {"Dup", "Swap"} => DataEffect[op].push = 2
         /\ op \in {"Tuck", "Rot"} => DataEffect[op].push = 3
         /\ op = "Dup2" => DataEffect[op].push = 4
  BY DEF DataEffect, Contracted, Takes

LEMMA ComputeStepAsContracted ==
  ASSUME TypeOK, instr.op \in Honest, ComputeStep
  PROVE  AsContracted
<1> USE DEF Compute, Executing
<1>1. ASSUME NEW ops, NEW out, Compute(ops, out), Len(out) = Pushed, instr.op \in Local
      PROVE  AsContracted
  BY <1>1, ComputeAsContracted
<1> DEFINE v1(x) == <<x>>
<1>2. \A x : Len(<<x>>) = 1
  OBVIOUS
<1>3. CASE Push
  <2>1. instr.op = "Push"
    BY <1>3 DEF Push
  <2> QED
    BY <1>1, <1>2, <1>3, <2>1, PushCounts DEF Push, Pushed, Local, Contracted
<1>4. CASE Arithmetic
  <2>1. instr.op \in {"Add", "Sub", "Mul"}
    BY <1>4 DEF Arithmetic, ArithmeticOps
  <2> QED
    BY <1>1, <1>2, <1>4, <2>1, PushCounts DEF Arithmetic, Pushed, Local, Contracted
<1>5. CASE Divide
  <2>1. instr.op = "Div"
    BY <1>5 DEF Divide, DivisionOps, Honest, Contracted
  <2>2. Len(DivisionResult(instr.op, Arg(2), Arg(1))) = 1
    BY <2>1 DEF DivisionResult
  <2> QED
    BY <1>1, <1>5, <2>1, <2>2, PushCounts DEF Divide, Pushed, Local, Contracted
<1>6. CASE Shuffle
  <2>1. instr.op \in ShuffleOps \ {"Over"}
    BY <1>6 DEF Shuffle, Honest, Mistaken
  <2>2. Len(Shuffled(instr.op, Arg(3), Arg(2), Arg(1))) = Pushed
    BY <2>1, PushCounts DEF Shuffled, ShuffleOps, Pushed
  <2>3. instr.op \in Local
    BY <2>1 DEF ShuffleOps, Local, Contracted
  <2> QED
    BY <1>1, <1>6, <2>2, <2>3 DEF Shuffle
<1>7. CASE Unary
  <2>1. instr.op \in {"Inc", "Dec", "Square", "IsZero"}
    BY <1>7 DEF Unary, UnaryOps, Honest, Contracted
  <2> QED
    BY <1>1, <1>2, <1>7, <2>1, PushCounts DEF Unary, Pushed, Local, Contracted
<1>8. CASE Compare
  <2>1. instr.op \in {"Eq", "Lt", "Gt"}
    BY <1>8 DEF Compare, CompareOps
  <2> QED
    BY <1>1, <1>2, <1>8, <2>1, PushCounts DEF Compare, Pushed, Local, Contracted
<1>9. CASE Output \/ Noop
  <2>1. instr.op \in {"Dot", "Emit", "Cr", "Noop"} /\ Len(<<>>) = 0
    BY <1>9 DEF Output, OutputOps, Noop
  <2>2. Pushed = 0 /\ instr.op \in Local
    BY <2>1, PushCounts DEF Pushed, Local, Contracted
  <2>3. PICK ops : Compute(ops, <<>>)
    BY <1>9 DEF Output, Noop
  <2> QED
    BY <1>1, <2>1, <2>2, <2>3
<1>10. CASE DivideByZero
  <2>1. instr.op = "Div"
    BY <1>10 DEF DivideByZero, DivisionOps, Honest, Contracted
  <2>2. Arity(instr.op) = 2
    BY <2>1, Arities DEF TakesTwo, DivisionOps
  <2>3. d_depth' = d_depth - 1 /\ Finish("Err") /\ UNCHANGED <<store, frames, ip, caller>>
    BY <1>10, <2>1 DEF DivideByZero
  <2>4. at' = "result" /\ result'.status # "Done"
    BY <2>3 DEF Finish, Return
  <2>5. d_depth >= Arity(instr.op) /\ d_depth' \in d_depth - Arity(instr.op) .. d_depth
    BY <1>10, <2>2, <2>3, Depths0 DEF DivideByZero
  <2> QED
    BY <2>3, <2>4, <2>5, FailsAsContracted DEF store, frames, caller
<1>11. CASE PushF \/ AbsInRange \/ AbsOverflow \/ Extreme \/ BitLogic \/ Shift \/ Constant
             \/ Pick \/ PickTooDeep \/ Roll \/ RollTooDeep
  BY <1>11 DEF PushF, AbsInRange, AbsOverflow, Extreme, BitLogic, Shift, Constant, Pick,
     PickTooDeep, Roll, RollTooDeep, ExtremeOps, BitOps, ShiftOps, ConstantOps, Honest,
     Contracted, Mistaken
<1> QED
  BY <1>3, <1>4, <1>5, <1>6, <1>7, <1>8, <1>9, <1>10, <1>11 DEF ComputeStep

LEMMA FrameStepAsContracted ==
  ASSUME TypeOK, instr.op \in Honest, FrameStep
  PROVE  AsContracted
<1>1. Len(r_stack) \in Nat /\ Len(loop_stack) \in Nat /\ r_stack \in Seq(Val) /\ loop_stack \in Seq(Val)
  BY LenProperties DEF TypeOK, FramesType
<1>2. CASE ToR
  <2>1. /\ instr.op = "ToR" /\ d_depth >= Arity(instr.op) /\ Pop
        /\ UNCHANGED <<store, f_depth, c_stack, loop_stack, exception_stack, ip, caller>>
    BY <1>2 DEF ToR, Executing
  <2>2. Pushed = 0 /\ ReturnEffect[instr.op].pop = 0 /\ ReturnEffect[instr.op].push = 1
        /\ Exits(instr, ip) = {ip}
    BY <2>1, PushCounts DEF Pushed, ReturnEffect, Contracted, Takes, Exits
  <2>3. at' = "result" /\ (result'.status = "Done" => r_stack' = Append(r_stack, Arg(1)))
    BY <1>2 DEF ToR, Finish, Return
  <2>4. result'.status = "Done" => Returns' = Returns + 1
    <3>1. Len(Append(r_stack, Arg(1))) = Len(r_stack) + 1
      BY <1>1
    <3> QED
      BY <1>1, <2>1, <2>3, <3>1 DEF Returns
  <2> QED
    BY <2>1, <2>2, <2>3, <2>4, Depths0, PopAsContracted DEF store, caller
<1>3. CASE FromR
  <2>1. /\ instr.op = "FromR" /\ d_depth >= Arity(instr.op) /\ PopPush(<<Last(r_stack)>>)
        /\ r_stack # <<>> /\ r_stack' = Front(r_stack)
        /\ UNCHANGED <<store, f_depth, c_stack, loop_stack, exception_stack, ip, caller>>
    BY <1>3 DEF FromR, Executing
  <2>2. Pushed = 1 /\ ReturnEffect[instr.op].pop = 1 /\ ReturnEffect[instr.op].push = 0
        /\ Exits(instr, ip) = {ip} /\ Len(<<Last(r_stack)>>) = 1
    BY <2>1, PushCounts DEF Pushed, ReturnEffect, Contracted, Takes, Exits
  <2>3. Returns' = Returns - 1
    <3>1. Len(Front(r_stack)) = Len(r_stack) - 1
      BY <1>1, <2>1 DEF Front
    <3> QED
      BY <1>1, <2>1, <3>1 DEF Returns
  <2>4. UNCHANGED <<code, exception_stack, host, driver>>
    BY <2>1 DEF store, caller
  <2> QED
    BY <2>1, <2>2, <2>3, <2>4, Depths0, PushedDepth DEF AsContracted
<1>4. CASE EmptyR \/ NotInLoop
  <2>1. PICK ops : Refuse(ops)
    BY <1>4 DEF EmptyR, NotInLoop
  <2>2. /\ d_depth >= Arity(instr.op) /\ Pop
        /\ at' = "result" /\ result'.status # "Done"
        /\ UNCHANGED <<code, exception_stack, host, driver>>
    BY <2>1 DEF Refuse, Executing, Finish, Return, store, frames, caller
  <2>3. d_depth' \in d_depth - Arity(instr.op) .. d_depth
    BY <2>2, Depths0 DEF Pop
  <2> QED
    BY <2>2, <2>3, FailsAsContracted
<1>5. CASE Do
  <2>1. /\ instr.op = "Do" /\ d_depth >= Arity(instr.op) /\ Pop
        /\ loop_stack' = loop_stack \o <<Arg(2), Arg(1)>> /\ Finish("Done")
        /\ UNCHANGED <<store, f_depth, r_stack, c_stack, exception_stack, ip, caller>>
    BY <1>5 DEF Do, Executing
  <2>2. Pushed = 0 /\ ReturnEffect[instr.op].pop = 0 /\ ReturnEffect[instr.op].push = 2
        /\ Exits(instr, ip) = {ip}
    BY <2>1, PushCounts DEF Pushed, ReturnEffect, Contracted, Takes, Exits
  <2>3. Returns' = Returns + 2
    <3>1. Len(loop_stack \o <<Arg(2), Arg(1)>>) = Len(loop_stack) + 2
      BY <1>1
    <3> QED
      BY <1>1, <2>1, <3>1 DEF Returns
  <2> QED
    BY <2>1, <2>2, <2>3, Depths0, PopAsContracted DEF store, caller, Finish, Return
<1>6. CASE I
  <2>1. instr.op = "I" /\ Len(<<Last(loop_stack)>>) = 1
    BY <1>6 DEF I, Compute, Executing
  <2>2. Pushed = 1 /\ instr.op \in Local
    BY <2>1, PushCounts DEF Pushed, Local, Contracted
  <2> QED
    BY <1>6, <2>1, <2>2, ComputeAsContracted DEF I
<1>7. CASE RFetch \/ Loop \/ PLoop \/ J
  BY <1>7 DEF RFetch, Loop, PLoop, J, Compute, Executing, Honest, Contracted, Mistaken
<1> QED
  BY <1>2, <1>3, <1>4, <1>5, <1>6, <1>7 DEF FrameStep

LEMMA MemoryStepAsContracted ==
  ASSUME TypeOK, instr.op \in Honest, MemoryStep
  PROVE  AsContracted
<1>1. CASE FetchCell
  <2>1. instr.op = "Fetch" /\ Len(<<CellAt(Arg(1))>>) = 1
    BY <1>1 DEF FetchCell, Executing
  <2>2. Pushed = 1 /\ instr.op \in Local
    BY <2>1, PushCounts DEF Pushed, Local, Contracted
  <2> QED
    BY <1>1, <2>1, <2>2, ComputeAsContracted DEF FetchCell
<1>2. CASE StoreCell
  <2>1. /\ instr.op = "Store" /\ d_depth >= Arity(instr.op) /\ Pop /\ Finish("Done")
        /\ UNCHANGED <<code, dict, here, frames, ip, caller>>
    BY <1>2 DEF StoreCell, Executing
  <2>2. Pushed = 0 /\ ReturnEffect[instr.op].pop = 0 /\ ReturnEffect[instr.op].push = 0
        /\ Exits(instr, ip) = {ip}
    BY <2>1, PushCounts DEF Pushed, ReturnEffect, Contracted, Takes, Exits
  <2>3. Returns' = Returns
    BY <2>1 DEF Returns, frames
  <2> QED
    BY <2>1, <2>2, <2>3, Depths0, PopAsContracted DEF frames, caller, Finish, Return
<1>3. CASE OutOfMemory \/ AddressWraps
  <2>1. /\ d_depth >= Arity(instr.op) /\ Pop
        /\ (at' = "result" /\ result'.status # "Done") \/ at' = "crash"
        /\ UNCHANGED <<code, exception_stack, host, driver>>
    BY <1>3 DEF OutOfMemory, AddressWraps, Refuse, Executing, Finish, Return, Crash, store, frames,
       caller
  <2>2. d_depth' \in d_depth - Arity(instr.op) .. d_depth
    BY <2>1, Depths0 DEF Pop
  <2> QED
    BY <2>1, <2>2, FailsAsContracted
<1>4. CASE FetchC \/ StoreC \/ Comma \/ CommaNoRoom \/ Allot \/ CompileComma
  BY <1>4 DEF FetchC, StoreC, Comma, CommaNoRoom, Allot, CompileComma, Refuse, Compute, Executing,
     Honest, Contracted
<1> QED
  BY <1>1, <1>2, <1>3, <1>4 DEF MemoryStep

LEMMA ControlStepAsContracted ==
  ASSUME TypeOK, instr.op \in Honest, ControlStep
  PROVE  AsContracted
<1>1. CASE Jump
  <2>1. /\ instr.op = "Jump" /\ d_depth >= Arity(instr.op) /\ GoTo(Target)
        /\ UNCHANGED <<store, data, frames, caller>>
    BY <1>1 DEF Jump, Executing
  <2>2. Pushed = 0 /\ ReturnEffect[instr.op].pop = 0 /\ ReturnEffect[instr.op].push = 0
        /\ Exits(instr, ip) = {ip + instr.data} /\ Arity(instr.op) = 0
    BY <2>1, PushCounts DEF Pushed, ReturnEffect, Contracted, Takes, Exits, Arity, TakesOne, TakesTwo,
       ArithmeticOps, DivisionOps, BitOps, ShiftOps, ExtremeOps, CompareOps, UnaryOps
  <2>3. at' = "result" /\ (result'.status = "Done" => ip' = ip + instr.data)
    BY <2>1 DEF GoTo, Finish, Return, Target
  <2>4. Pop /\ Returns' = Returns
    BY <2>1, <2>2, Depths0 DEF Pop, data, frames, Returns
  <2> QED
    BY <2>1, <2>2, <2>3, <2>4, Depths0, PopAsContracted DEF store, frames, caller
<1>2. CASE JZ
  <2>1. /\ instr.op = "JZ" /\ d_depth >= Arity(instr.op) /\ Pop
        /\ UNCHANGED <<store, frames, caller>>
    BY <1>2 DEF JZ, Executing
  <2>2. Pushed = 0 /\ ReturnEffect[instr.op].pop = 0 /\ ReturnEffect[instr.op].push = 0
        /\ Exits(instr, ip) = {ip, ip + instr.data}
    BY <2>1, PushCounts DEF Pushed, ReturnEffect, Contracted, Takes, Exits
  <2>3. at' = "result" /\ (result'.status = "Done" => ip' \in {ip, ip + instr.data})
    BY <1>2 DEF JZ, GoTo, Finish, Return, Target
  <2>4. Returns' = Returns
    BY <2>1 DEF frames, Returns
  <2> QED
    BY <2>1, <2>2, <2>3, <2>4, Depths0, PopAsContracted DEF store, frames, caller
<1>3. CASE Throw
  <2>1. /\ instr.op = "Throw" /\ d_depth >= Arity(instr.op) /\ Pop /\ at' = "result"
        /\ UNCHANGED <<store, frames, ip, caller>>
    BY <1>3 DEF Throw, Executing, Finish, Return
  <2>2. Pushed = 0 /\ ReturnEffect[instr.op].pop = 0 /\ ReturnEffect[instr.op].push = 0
        /\ Exits(instr, ip) = {ip}
    BY <2>1, PushCounts DEF Pushed, ReturnEffect, Contracted, Takes, Exits
  <2>3. Returns' = Returns
    BY <2>1 DEF frames, Returns
  <2> QED
    BY <2>1, <2>2, <2>3, Depths0, PopAsContracted DEF store, frames, caller
<1>4. CASE Call \/ CallNoWord \/ Ret \/ Execute \/ ExecuteNoWord \/ Catch \/ Yield \/ Stop
  BY <1>4 DEF Call, CallNoWord, Ret, Execute, ExecuteNoWord, Catch, Yield, Stop, Refuse, Executing,
     Honest, Contracted, Mistaken
<1> QED
  BY <1>1, <1>2, <1>3, <1>4 DEF ControlStep

\* One instruction with an honest contract and its operands.
LEMMA StepAsContracted ==
  ASSUME TypeOK, at = "exec", instr.op \in Honest, d_depth >= Arity(instr.op), VmStep
  PROVE  AsContracted
<1>1. CASE Exhaust
  <2>1. at' = "crash" /\ UNCHANGED <<store, data, frames, ip, caller>>
    BY <1>1 DEF Exhaust, Crash
  <2>2. d_depth' \in d_depth - Arity(instr.op) .. d_depth
    BY <2>1, Depths0 DEF data
  <2> QED
    BY <2>1, <2>2, FailsAsContracted DEF store, frames, caller
<1>2. CASE ComputeStep \/ FrameStep \/ MemoryStep \/ ControlStep
  BY <1>2, ComputeStepAsContracted, FrameStepAsContracted, MemoryStepAsContracted,
     ControlStepAsContracted
<1>3. CASE PastEnd \/ Decode \/ Underflow \/ ReturnStep
  BY <1>3, Depths0 DEF PastEnd, Decode, Underflow, ReturnStep, WordGoesOn, WordReturns, ErrorEscapes,
     KeepRunning, RunEnds, UnwindThrow, UnwindError, NoHandler, InterpretReturns, RunLoopGets,
     Returned
<1> QED
  BY <1>1, <1>2, <1>3 DEF VmStep

\* Without its operands an instruction only fails.
LEMMA OnlyUnderflows ==
  ASSUME at = "exec", VmStep, ~Underflow
  PROVE  d_depth >= Arity(instr.op)
<1> USE DEF Compute, Refuse, Executing
<1>1. CASE ComputeStep
  BY <1>1 DEF ComputeStep, Push, PushF, Arithmetic, Divide, DivideByZero,
    Shuffle, Unary, AbsInRange, AbsOverflow, Extreme, BitLogic, Shift, Compare,
    Constant, Output, Noop, Pick, PickTooDeep, Roll, RollTooDeep
<1>2. CASE FrameStep
  BY <1>2 DEF FrameStep, ToR, FromR, RFetch, EmptyR, Do, Loop, PLoop, NotInLoop, I, J
<1>3. CASE MemoryStep
  BY <1>3 DEF MemoryStep, FetchCell, StoreCell, FetchC, StoreC, OutOfMemory, AddressWraps,
    Comma, CommaNoRoom, Allot, CompileComma
<1>4. CASE ControlStep
  BY <1>4 DEF ControlStep, Jump, JZ, Call, CallNoWord, Ret, Execute, ExecuteNoWord, Catch,
    Throw, Yield, Stop
<1>5. CASE PastEnd \/ Decode \/ ReturnStep
  BY <1>5 DEF PastEnd, Decode, ReturnStep, WordGoesOn, WordReturns, ErrorEscapes,
    KeepRunning, RunEnds, UnwindThrow, UnwindError, NoHandler, InterpretReturns, RunLoopGets,
    Returned
<1>6. CASE Exhaust
  BY <1>6 DEF Exhaust
<1> QED
  BY <1>1, <1>2, <1>3, <1>4, <1>5, <1>6 DEF VmStep

-----------------------------------------------------------------------------
(***************************************************************************)
(* The depths on the way.                                                  *)
(***************************************************************************)
\* The position of the run: of the instruction that executes, or of the next.
Place == IF at = "exec" THEN ip - 1 ELSE ip

OnTheWay ==
  base # -1 /\ (at \in {"step", "exec"} \/ (at = "result" /\ result.status = "Done"))

\* The depths are those of the pass.
DepthsAsPassed ==
  OnTheWay /\ Supplied =>
    /\ d_depth = base + DepthPass(code).depth[Place][1]
    /\ Returns = DepthPass(code).depth[Place][2]

\* An accepted sequence runs once, and no exception, word or crash brings it
\* back.
RunsOnce ==
  /\ base \in Nat \cup {-1}
  /\ exception_stack = <<>> /\ host = <<>> /\ driver = "run_loop"
  /\ base = -1 => at = "idle" /\ ip = 0 /\ r_stack = <<>> /\ loop_stack = <<>>
  /\ base # -1 => Trusted
  /\ OnTheWay => Place \in 0 .. Len(code)
  /\ at = "exec" => ip \in 1 .. Len(code) /\ instr = code[ip]

RunInv == TypeOK /\ CanariesIntact /\ RunsOnce /\ DepthsAsPassed /\ RoomAsContracted

\* What the pass says of a sequence that is accepted.
LEMMA TrustedPass ==
  ASSUME TypeOK, Trusted, NEW pass, pass = DepthPass(code)
  PROVE  /\ pass.depth[0] = <<0, 0>> /\ pass.depth[Len(code)] \in Int \X Int
         /\ pass.low[1] \in Int /\ pass.high[1] \in Int /\ pass.low[1] <= 0 /\ 0 <= pass.high[1]
         /\ pass.low[2] \in Int
         /\ Contract(code).pop_d = -pass.low[1] /\ Contract(code).max_d = pass.high[1]
         /\ Contract(code).push_d = pass.depth[Len(code)][1] - pass.low[1]
         /\ Contract(code).pop_r = -pass.low[2]
         /\ Contract(code).push_r = pass.depth[Len(code)][2] - pass.low[2]
         /\ \A p \in 0 .. Len(code) - 1 :
              SaysOf(pass, code, p) /\ code[p + 1].op \in Honest
<1>1. code \in Seq(Executed) /\ Len(code) \in Nat
  <2>1. code \in Seq(Instruction)
    BY DEF TypeOK, StoreType
  <2>2. Len(code) \in Nat /\ \A i \in 1 .. Len(code) : code[i] \in Instruction
    BY <2>1
  <2> QED
    BY <2>1, <2>2, InstructionsAreExecuted
<1>2. Accepted(code) /\ \A i \in DOMAIN code : code[i].op \notin Mistaken
  BY DEF Trusted
<1>3. pass.ok /\ pass.depth[Len(code)] # Unreached
  BY <1>2 DEF Accepted
<1>4. pass \in Passes(code) /\ PassedTo(pass, code, Len(code))
  BY <1>1, <1>3, PassSays
<1>5. pass.depth[Len(code)] \in Int \X Int
  <2>1. pass.depth[Len(code)] \in Depths
    BY <1>1, <1>4 DEF Passes
  <2> QED
    BY <1>3, <2>1 DEF Depths
<1>6. /\ pass.low[1] \in Int /\ pass.high[1] \in Int /\ pass.low[2] \in Int
      /\ pass.low[1] <= 0 /\ 0 <= pass.high[1] /\ pass.depth[0] = <<0, 0>>
  BY <1>4 DEF Passes, PassedTo
<1>7. Contract(code) = ContractOf(pass, pass.depth[Len(code)])
  BY DEF Contract
<1>8. ASSUME NEW p \in 0 .. Len(code) - 1
      PROVE  SaysOf(pass, code, p) /\ code[p + 1].op \in Honest
  <2>1. SaysOf(pass, code, p)
    BY <1>4 DEF PassedTo
  <2>2. p + 1 \in DOMAIN code
    BY <1>1
  <2>3. code[p + 1].op \in Contracted
    BY <2>1 DEF SaysOf, Known
  <2> QED
    BY <1>2, <2>1, <2>2, <2>3 DEF Honest
<1> QED
  BY <1>5, <1>6, <1>7, <1>8 DEF ContractOf

\* What the pass says of an instruction, in the terms of a run that is there.
LEMMA PlaceOfExec ==
  ASSUME RunInv, at = "exec", base # -1
  PROVE  /\ ip - 1 \in 0 .. Len(code) - 1 /\ instr.op \in Honest
         /\ SaysOf(DepthPass(code), code, ip - 1) /\ code[(ip - 1) + 1] = instr
         /\ (ip - 1) + 1 = ip
<1>1. Len(code) \in Nat /\ ip \in 1 .. Len(code) /\ instr = code[ip] /\ Trusted
  BY LenProperties DEF RunInv, RunsOnce, TypeOK, StoreType
<1>2. ip - 1 \in 0 .. Len(code) - 1 /\ (ip - 1) + 1 = ip
  BY <1>1
<1> QED
  BY <1>1, <1>2, TrustedPass DEF RunInv

LEMMA ExecKeeps ==
  ASSUME RunInv, at = "exec", base # -1, VmStep, UNCHANGED base
  PROVE  RunsOnce' /\ DepthsAsPassed' /\ RoomAsContracted'
<1> DEFINE pass == DepthPass(code)
           from == pass.depth[ip - 1]
<1>1. /\ ip - 1 \in 0 .. Len(code) - 1 /\ instr.op \in Honest
      /\ SaysOf(pass, code, ip - 1) /\ code[(ip - 1) + 1] = instr /\ (ip - 1) + 1 = ip
  BY PlaceOfExec
<1>2. TypeOK /\ Trusted /\ base \in Nat /\ exception_stack = <<>> /\ host = <<>> /\ driver = "run_loop"
  BY DEF RunInv, RunsOnce
<1>3. Supplied => /\ d_depth = base + from[1] /\ Returns = from[2]
                  /\ d_depth \in (base - Contract(code).pop_d) .. (base + Contract(code).max_d)
                  /\ d_depth >= Arity(instr.op)
  BY DEF RunInv, DepthsAsPassed, RoomAsContracted, OnTheWay, Place
<1>4. CASE d_depth < Arity(instr.op)
  <2>1. ~Supplied
    BY <1>3, <1>4, Depths0, HonestArity, <1>1, <1>2, ArityType DEF TypeOK, DataType
  <2>2. Underflow
    BY <1>4, <1>2, OnlyUnderflows, ArityType DEF TypeOK, DataType
  <2>3. at' = "result" /\ result'.status = "Err" /\ UNCHANGED <<code, frames, caller>>
    BY <2>2 DEF Underflow, Finish, Return, store
  <2> QED
    BY <1>2, <2>1, <2>3 DEF RunsOnce, DepthsAsPassed, RoomAsContracted, OnTheWay, Supplied, Trusted,
       frames, caller
<1>5. CASE d_depth >= Arity(instr.op)
  <2>1. AsContracted
    BY <1>1, <1>2, <1>5, StepAsContracted
  <2>2. d_depth \in Nat /\ Pops \in 0 .. 3 /\ Pushed \in 0 .. 4
    BY <1>1, <1>2, <1>5, Depths0
  <2>3. code' = code /\ base' = base /\ exception_stack' = <<>> /\ host' = <<>>
        /\ driver' = "run_loop" /\ at' \in {"result", "crash"}
    BY <1>2, <2>1 DEF AsContracted
  <2>4. ASSUME OnTheWay'
        PROVE  /\ Place' = ip' /\ ip' \in Exits(instr, ip)
               /\ d_depth' = d_depth - Pops + Pushed
               /\ Returns' = Returns - ReturnEffect[instr.op].pop + ReturnEffect[instr.op].push
    BY <2>1, <2>3, <2>4 DEF OnTheWay, Place, AsContracted
  <2>5. \A e \in Exits(instr, ip) :
          e \in 0 .. Len(code) /\ pass.depth[e] = After(instr, from)
    BY <1>1, Zenon DEF SaysOf
  <2>6. from \in Int \X Int /\ pass.low[1] <= Taken(instr, from)[1] /\ After(instr, from)[1] <= pass.high[1]
    BY <1>1 DEF SaysOf
  <2>7. Taken(instr, from)[1] = from[1] - Pops
        /\ After(instr, from) = <<from[1] - Pops + Pushed, from[2] - ReturnEffect[instr.op].pop + ReturnEffect[instr.op].push>>
    BY DEF Taken, After, Pops, Pushed
  <2>8. /\ pass.low[1] \in Int /\ pass.high[1] \in Int /\ pass.low[1] <= 0 /\ 0 <= pass.high[1]
        /\ Contract(code).pop_d = -pass.low[1] /\ Contract(code).max_d = pass.high[1]
    BY <1>2, TrustedPass
  <2>9. Supplied' = Supplied
    BY <2>3 DEF Supplied
  <2> HIDE DEF pass, from
  <2>10. RunsOnce'
    <3>1. Trusted'
      BY <1>2, <2>3 DEF Trusted
    <3>2. OnTheWay' => Place' \in 0 .. Len(code')
      BY <2>3, <2>4, <2>5
    <3> QED
      BY <1>2, <2>3, <3>1, <3>2 DEF RunsOnce
  <2>11. DepthsAsPassed'
    <3>1. SUFFICES ASSUME OnTheWay', Supplied
                   PROVE  /\ d_depth' = base + pass.depth[Place'][1]
                          /\ Returns' = pass.depth[Place'][2]
      BY <2>3, <2>9 DEF DepthsAsPassed, pass
    <3>2. pass.depth[Place'] = After(instr, from)
      BY <2>4, <2>5, <3>1
    <3> QED
      BY <1>2, <1>3, <2>2, <2>4, <2>6, <2>7, <3>1, <3>2
  <2>12. RoomAsContracted'
    <3>1. SUFFICES ASSUME Supplied
                   PROVE  d_depth' \in (base - Contract(code).pop_d) .. (base + Contract(code).max_d)
      BY <2>3, <2>9 DEF RoomAsContracted
    <3>2. d_depth' >= d_depth - Pops /\ (d_depth' <= d_depth \/ d_depth' <= d_depth - Pops + Pushed)
      BY <2>1 DEF AsContracted
    <3>3. d_depth' \in Int
      BY NextType DEF RunInv, Next, TypeOK, DataType
    <3>4. pass.low[1] <= from[1] - Pops /\ from[1] - Pops + Pushed <= pass.high[1] /\ from[1] \in Int
      BY <2>6, <2>7
    <3>5. d_depth = base + from[1] /\ d_depth <= base + pass.high[1]
      BY <1>2, <1>3, <2>8, <3>1
    <3>6. d_depth' \in (base + pass.low[1]) .. (base + pass.high[1])
      <4>1. /\ pass.low[1] \in Int /\ pass.high[1] \in Int /\ base \in Int
            /\ from[1] \in Int /\ Pops \in Int /\ Pushed \in Int
        BY <1>2, <2>2, <2>8, <3>4
      <4>2. d_depth' >= base + pass.low[1]
        BY <3>2, <3>3, <3>4, <3>5, <4>1
      <4>3. d_depth' <= base + pass.high[1]
        BY <3>2, <3>3, <3>4, <3>5, <4>1
      <4> QED
        BY <3>3, <4>1, <4>2, <4>3
    <3> QED
      BY <1>2, <2>8, <3>6
  <2> QED
    BY <2>10, <2>11, <2>12
<1> QED
  BY <1>2, <1>4, <1>5, ArityType DEF TypeOK, DataType

LEMMA IdleRuns ==
  ASSUME RunInv, at \in {"idle", "crash"}
  PROVE  ~VmStep
<1> USE DEF Compute, Refuse, Executing
<1>1. ~(PastEnd \/ Decode \/ Underflow \/ Exhaust)
  BY DEF PastEnd, Decode, Underflow, Exhaust
<1>2. ~ComputeStep
  BY DEF ComputeStep, Push, PushF, Arithmetic, Divide, DivideByZero,
    Shuffle, Unary, AbsInRange, AbsOverflow, Extreme, BitLogic, Shift, Compare,
    Constant, Output, Noop, Pick, PickTooDeep, Roll, RollTooDeep
<1>3. ~FrameStep
  BY DEF FrameStep, ToR, FromR, RFetch, EmptyR, Do, Loop, PLoop, NotInLoop, I, J
<1>4. ~MemoryStep
  BY DEF MemoryStep, FetchCell, StoreCell, FetchC, StoreC, OutOfMemory, AddressWraps,
    Comma, CommaNoRoom, Allot, CompileComma
<1>5. ~ControlStep
  BY DEF ControlStep, Jump, JZ, Call, CallNoWord, Ret, Execute, ExecuteNoWord, Catch,
    Throw, Yield, Stop
<1>6. ~ReturnStep
  BY DEF ReturnStep, WordGoesOn, WordReturns, ErrorEscapes,
    KeepRunning, RunEnds, UnwindThrow, UnwindError, NoHandler, InterpretReturns, RunLoopGets,
    Returned
<1> QED
  BY <1>1, <1>2, <1>3, <1>4, <1>5, <1>6 DEF VmStep

\* Between two instructions the run stays where it is.
LEMMA Between ==
  ASSUME RunInv, at \in {"step", "result"}, VmStep, UNCHANGED base
  PROVE  /\ PastEnd \/ Decode \/ KeepRunning \/ RunEnds \/ NoHandler
         /\ code' = code /\ d_depth' = d_depth /\ d_stack' = d_stack /\ r_stack' = r_stack
         /\ loop_stack' = loop_stack /\ exception_stack' = <<>> /\ host' = <<>>
         /\ driver' = "run_loop" /\ base' = base
         /\ OnTheWay' => OnTheWay /\ Place' = Place
<1>1. /\ TypeOK /\ base # -1 /\ base \in Nat /\ Trusted /\ exception_stack = <<>> /\ host = <<>>
      /\ driver = "run_loop"
  BY DEF RunInv, RunsOnce
<1>2. PastEnd \/ Decode \/ KeepRunning \/ RunEnds \/ NoHandler
  <2>1. PastEnd \/ Decode \/ ReturnStep
    <3> USE DEF Compute, Refuse, Executing
    <3>1. ~(Underflow \/ Exhaust)
      BY DEF Underflow, Exhaust
    <3>2. ~ComputeStep
      BY DEF ComputeStep, Push, PushF, Arithmetic, Divide, DivideByZero,
        Shuffle, Unary, AbsInRange, AbsOverflow, Extreme, BitLogic, Shift, Compare,
        Constant, Output, Noop, Pick, PickTooDeep, Roll, RollTooDeep
    <3>3. ~FrameStep
      BY DEF FrameStep, ToR, FromR, RFetch, EmptyR, Do, Loop, PLoop, NotInLoop, I, J
    <3>4. ~MemoryStep
      BY DEF MemoryStep, FetchCell, StoreCell, FetchC, StoreC, OutOfMemory, AddressWraps,
        Comma, CommaNoRoom, Allot, CompileComma
    <3>5. ~ControlStep
      BY DEF ControlStep, Jump, JZ, Call, CallNoWord, Ret, Execute, ExecuteNoWord, Catch,
        Throw, Yield, Stop
    <3> QED
      BY <3>1, <3>2, <3>3, <3>4, <3>5 DEF VmStep
  <2> QED
    BY <1>1, <2>1 DEF ReturnStep, WordGoesOn, WordReturns, ErrorEscapes, UnwindThrow, UnwindError,
       Unwind, InterpretReturns
<1>3. UNCHANGED <<store, data, frames, caller, base>>
  BY <1>2 DEF PastEnd, Decode, KeepRunning, RunEnds, NoHandler, caller
<1>4. /\ code' = code /\ d_depth' = d_depth /\ d_stack' = d_stack /\ r_stack' = r_stack /\ loop_stack' = loop_stack
      /\ exception_stack' = <<>> /\ host' = <<>> /\ driver' = "run_loop" /\ base' = base
  BY <1>1, <1>3 DEF store, data, frames, caller
<1>5. OnTheWay' => OnTheWay /\ Place' = Place
  <2>1. CASE PastEnd
    BY <2>1 DEF PastEnd, Finish, Return, OnTheWay
  <2>2. CASE Decode
    <3>1. at = "step" /\ at' = "exec" /\ ip' = ip + 1 /\ ip \in Int
      BY <1>1, <2>2 DEF Decode, TypeOK, ControlType
    <3> QED
      BY <1>1, <3>1 DEF OnTheWay, Place
  <2>3. CASE KeepRunning
    BY <1>1, <2>3 DEF KeepRunning, RunLoopGets, Returned, OnTheWay, Place
  <2>4. CASE RunEnds \/ NoHandler
    BY <2>4 DEF RunEnds, NoHandler, OnTheWay
  <2> QED
    BY <1>2, <2>1, <2>2, <2>3, <2>4
<1> QED
  BY <1>2, <1>4, <1>5

LEMMA OthersKeep ==
  ASSUME RunInv, at \in {"step", "result"}, VmStep, UNCHANGED base
  PROVE  RunsOnce' /\ DepthsAsPassed' /\ RoomAsContracted'
<1>1. /\ TypeOK /\ base # -1 /\ base \in Nat /\ Trusted /\ exception_stack = <<>> /\ host = <<>>
      /\ driver = "run_loop"
  BY DEF RunInv, RunsOnce
<1>2. PastEnd \/ Decode \/ KeepRunning \/ RunEnds \/ NoHandler
  BY Between
<1>4. /\ code' = code /\ d_depth' = d_depth /\ r_stack' = r_stack /\ loop_stack' = loop_stack
      /\ exception_stack' = <<>> /\ host' = <<>> /\ driver' = "run_loop" /\ base' = base
  BY Between
<1>5. Trusted' /\ Supplied' = Supplied /\ Returns' = Returns
  BY <1>1, <1>4 DEF Trusted, Supplied, Returns
<1>6. OnTheWay' => OnTheWay /\ Place' = Place
  BY Between
<1>7. at' = "exec" => ip' \in 1 .. Len(code) /\ instr' = code[ip'] /\ OnTheWay
  <2>1. SUFFICES ASSUME Decode PROVE ip' \in 1 .. Len(code) /\ instr' = code[ip'] /\ OnTheWay
    BY <1>2 DEF PastEnd, Finish, Return, KeepRunning, RunEnds, NoHandler
  <2>2. ip \in 0 .. Len(code) - 1 /\ ip' = ip + 1 /\ instr' = code[ip + 1] /\ Len(code) \in Nat
        /\ at = "step"
    BY <1>1, <2>1, LenProperties DEF Decode, InCode, TypeOK, StoreType
  <2> QED
    BY <1>1, <2>2 DEF OnTheWay
<1>8. RunsOnce'
  BY <1>1, <1>4, <1>5, <1>6, <1>7 DEF RunsOnce, RunInv
<1>9. DepthsAsPassed'
  BY <1>4, <1>5, <1>6 DEF DepthsAsPassed, RunInv
<1>10. RoomAsContracted'
  <2>1. SUFFICES ASSUME Supplied, at' = "exec" PROVE d_depth >= Arity(instr'.op)
    BY <1>1, <1>4, <1>5 DEF RoomAsContracted, RunInv
  <2> DEFINE pass == DepthPass(code)
             p == ip' - 1
  <2>2. p \in 0 .. Len(code) - 1 /\ instr' = code[p + 1] /\ Place' = p
    BY <1>1, <1>7, <2>1, LenProperties DEF Place, TypeOK, StoreType
  <2>3. d_depth = base + pass.depth[p][1]
    BY <1>6, <1>7, <2>1, <2>2 DEF RunInv, DepthsAsPassed, OnTheWay
  <2>4. SaysOf(pass, code, p) /\ instr'.op \in Honest
    BY <1>1, <2>2, TrustedPass
  <2>5. /\ pass.low[1] \in Int /\ Contract(code).pop_d = -pass.low[1]
    BY <1>1, TrustedPass
  <2>6. pass.depth[p] \in Int \X Int /\ pass.low[1] <= Taken(instr', pass.depth[p])[1]
    BY <2>2, <2>4 DEF SaysOf
  <2> HIDE DEF pass, p
  <2>7. Taken(instr', pass.depth[p])[1] = pass.depth[p][1] - Arity(instr'.op)
    BY <2>4, HonestArity DEF Taken
  <2>8. base >= -pass.low[1] /\ Arity(instr'.op) \in Nat /\ pass.depth[p][1] \in Int
    BY <2>1, <2>5, <2>6, ArityType DEF Supplied
  <2> QED
    BY <1>1, <2>3, <2>5, <2>6, <2>7, <2>8
<1> QED
  BY <1>8, <1>9, <1>10

LEMMA BeforeKeeps ==
  ASSUME RunInv, Before
  PROVE  RunsOnce' /\ DepthsAsPassed' /\ RoomAsContracted'
<1>1. /\ TypeOK /\ base = -1 /\ Trusted /\ exception_stack = <<>> /\ host = <<>>
      /\ driver = "run_loop" /\ at = "idle" /\ ip = 0 /\ r_stack = <<>> /\ loop_stack = <<>>
      /\ d_depth \in Nat
  BY StackAssumption DEF RunInv, RunsOnce, Before, TypeOK, DataType
<1>2. CASE InterpretNumber /\ UNCHANGED base
  BY <1>1, <1>2 DEF InterpretNumber, RunsOnce, DepthsAsPassed, RoomAsContracted, OnTheWay, store,
     frames, caller
<1>3. CASE StartRun /\ base' = d_depth
  <2> DEFINE pass == DepthPass(code)
  <2>1. /\ at' = "step" /\ ip' = 0 /\ code' = code /\ d_depth' = d_depth /\ base' = d_depth
        /\ r_stack' = <<>> /\ loop_stack' = <<>> /\ exception_stack' = <<>> /\ host' = <<>>
        /\ driver' = "run_loop"
    BY <1>1, <1>3 DEF StartRun, store, data, frames
  <2>2. /\ pass.depth[0] = <<0, 0>> /\ pass.low[1] \in Int /\ pass.high[1] \in Int
        /\ pass.low[1] <= 0 /\ 0 <= pass.high[1]
        /\ Contract(code).pop_d = -pass.low[1] /\ Contract(code).max_d = pass.high[1]
    BY <1>1, TrustedPass
  <2>3. Len(code) \in Nat
    BY <1>1, LenProperties DEF TypeOK, StoreType
  <2>4. Trusted' /\ Place' = 0 /\ Returns' = 0
    BY <1>1, <2>1 DEF Trusted, Place, Returns
  <2>5. RunsOnce'
    BY <1>1, <2>1, <2>3, <2>4 DEF RunsOnce
  <2>6. DepthsAsPassed'
    BY <1>1, <2>1, <2>2, <2>4 DEF DepthsAsPassed
  <2> HIDE DEF pass
  <2>7. RoomAsContracted'
    BY <1>1, <2>1, <2>2 DEF RoomAsContracted
  <2> QED
    BY <2>5, <2>6, <2>7
<1> QED
  BY <1>2, <1>3 DEF Before

LEMMA RunKeeps ==
  ASSUME RunInv, [RunNext]_<<vars, base>>
  PROVE  RunInv'
<1>1. TypeOK' /\ CanariesIntact'
  BY NextType DEF RunInv, RunNext, Before, Next, HostStep, vars
<1>2. CASE Before
  BY <1>1, <1>2, BeforeKeeps DEF RunInv
<1>3. CASE VmStep /\ UNCHANGED base
  <2>1. at \in {"idle", "step", "exec", "result", "crash"} /\ (at = "exec" => base # -1)
    BY DEF RunInv, RunsOnce, TypeOK, ControlType
  <2> QED
    BY <1>1, <1>3, <2>1, IdleRuns, OthersKeep, ExecKeeps DEF RunInv
<1>4. CASE UNCHANGED <<vars, base>>
  BY <1>1, <1>4 DEF RunInv, RunsOnce, DepthsAsPassed, RoomAsContracted, OnTheWay, Place, Returns,
     Supplied, Trusted, vars, store, data, frames, caller
<1> QED
  BY <1>2, <1>3, <1>4 DEF RunNext

LEMMA RunStarts == RunInit => RunInv
<1> SUFFICES ASSUME RunInit PROVE RunInv
  OBVIOUS
<1>1. TypeOK /\ CanariesIntact
  BY InitType DEF RunInit
<1>2. base = -1 /\ at = "idle" /\ ip = 0 /\ r_stack = <<>> /\ loop_stack = <<>>
      /\ exception_stack = <<>> /\ host = <<>> /\ driver = "run_loop"
  BY DEF RunInit, Init
<1> QED
  BY <1>1, <1>2 DEF RunInv, RunsOnce, DepthsAsPassed, RoomAsContracted, OnTheWay

LEMMA RunInvHolds == RunSpec => []RunInv
  BY RunStarts, RunKeeps, PTL DEF RunSpec

\* No instruction of an accepted sequence runs out of operands on a stack
\* that has what the contract takes, and the depth stays within the bounds.
THEOREM RoomHolds == RunSpec => []RoomAsContracted
<1>1. RunInv => RoomAsContracted
  BY DEF RunInv
<1> QED
  BY <1>1, RunInvHolds, PTL

\* A run that gets to the end of an accepted sequence has changed the depths
\* by what the contract says, whichever way it took.
THEOREM EffectHolds == RunSpec => []EffectAsContracted
<1>1. RunInv => EffectAsContracted
  <2>1. SUFFICES ASSUME RunInv, Leaving, Supplied
                 PROVE  /\ d_depth = base - Contract(code).pop_d + Contract(code).push_d
                        /\ Returns = Contract(code).push_r - Contract(code).pop_r
    BY DEF EffectAsContracted, Returns
  <2> DEFINE pass == DepthPass(code)
  <2>2. d_depth = base + pass.depth[Len(code)][1] /\ Returns = pass.depth[Len(code)][2]
    BY <2>1 DEF RunInv, DepthsAsPassed, OnTheWay, Place, Leaving
  <2>3. TypeOK /\ Trusted /\ base \in Int
    BY <2>1 DEF RunInv, RunsOnce, Leaving
  <2>4. /\ pass.depth[Len(code)] \in Int \X Int /\ pass.low[1] \in Int /\ pass.low[2] \in Int
        /\ Contract(code).pop_d = -pass.low[1]
        /\ Contract(code).push_d = pass.depth[Len(code)][1] - pass.low[1]
        /\ Contract(code).pop_r = -pass.low[2]
        /\ Contract(code).push_r = pass.depth[Len(code)][2] - pass.low[2]
    BY <2>3, TrustedPass
  <2> HIDE DEF pass
  <2>5. /\ pass.depth[Len(code)][1] \in Int /\ pass.depth[Len(code)][2] \in Int
        /\ pass.low[1] \in Int /\ pass.low[2] \in Int
    BY <2>4
  <2>6. PICK low1, low2, end1, end2 :
          /\ low1 = pass.low[1] /\ low2 = pass.low[2]
          /\ end1 = pass.depth[Len(code)][1] /\ end2 = pass.depth[Len(code)][2]
    OBVIOUS
  <2>7. low1 \in Int /\ low2 \in Int /\ end1 \in Int /\ end2 \in Int /\ base \in Int
    BY <2>3, <2>5, <2>6
  <2>8. d_depth = base + end1 /\ Returns = end2
    BY <2>2, <2>6
  <2>9. /\ d_depth = base - (-low1) + (end1 - low1)
        /\ Returns = (end2 - low2) - (-low2)
    BY <2>7, <2>8
  <2> QED
    BY <2>4, <2>6, <2>9
<1> QED
  BY <1>1, RunInvHolds, PTL

-----------------------------------------------------------------------------
(***************************************************************************)
(* The pieces of the code.                                                 *)
(***************************************************************************)
LEMMA ApartInOrder ==
  ASSUME NEW seq \in Seq(Executed), NEW pieces \in Pieces, Apart(seq, pieces, Len(seq))
  PROVE  /\ \E start \in [DOMAIN pieces -> DOMAIN seq] :
              \A k \in DOMAIN pieces :
                /\ k > 1 => start[k] >= start[k - 1] + Len(pieces[k - 1])
                /\ start[k] + Len(pieces[k]) - 1 <= Len(seq)
                /\ pieces[k] = SubSeq(seq, start[k], start[k] + Len(pieces[k]) - 1)
         /\ \A k \in DOMAIN pieces :
              (\A i \in DOMAIN pieces[k] : pieces[k][i].op \notin {"Jump", "JZ"})
                => Contract(pieces[k]).pop_d <= DataEffect[Head(pieces[k]).op].pop
<1>1. PICK start :
        \A k \in DOMAIN pieces :
          /\ start[k] \in 1 .. Len(seq)
          /\ pieces[k] # <<>>
          /\ k > 1 => start[k] >= start[k - 1] + Len(pieces[k - 1])
          /\ Ends(seq, pieces[k], start[k] + Len(pieces[k]) - 1)
          /\ start[k] + Len(pieces[k]) - 1 <= Len(seq)
          /\ Accepted(pieces[k])
          /\ \E d \in Int : LivesOn(pieces[k], d)
  BY DEF Apart
<1>2. DOMAIN seq = 1 .. Len(seq) /\ Len(seq) \in Nat
      /\ \A k \in DOMAIN pieces : k \in Nat /\ (k > 1 => k - 1 \in DOMAIN pieces)
  BY DEF Pieces
<1> DEFINE S == [k \in DOMAIN pieces |-> start[k]]
<1>3. S \in [DOMAIN pieces -> DOMAIN seq]
  BY <1>1, <1>2
<1>4. ASSUME NEW k \in DOMAIN pieces
      PROVE  /\ k > 1 => S[k] >= S[k - 1] + Len(pieces[k - 1])
             /\ S[k] + Len(pieces[k]) - 1 <= Len(seq)
             /\ pieces[k] = SubSeq(seq, S[k], S[k] + Len(pieces[k]) - 1)
  <2> DEFINE piece == pieces[k]
             a == start[k]
             n == a + Len(piece) - 1
  <2>1. piece \in Seq(Known) /\ Len(piece) \in Nat /\ a \in 1 .. Len(seq) /\ Ends(seq, piece, n)
        /\ n <= Len(seq) /\ S[k] = a
    BY <1>1 DEF Pieces
  <2>2. piece = SubSeq(seq, a, n)
    <3>1. ASSUME NEW i \in 1 .. Len(piece) PROVE piece[i] = seq[i + a - 1]
      <4>1. n - Len(piece) + i = i + a - 1
        BY <2>1
      <4>2. piece[i] = seq[n - Len(piece) + i]
        BY <2>1 DEF Ends
      <4> QED
        BY <4>1, <4>2
    <3>2. /\ Len(SubSeq(seq, a, n)) = Len(piece) /\ SubSeq(seq, a, n) \in Seq(Executed)
          /\ \A i \in 1 .. Len(piece) : SubSeq(seq, a, n)[i] = seq[i + a - 1]
      <4>1. n - a + 1 = Len(piece) /\ a \in 1 .. Len(seq) + 1 /\ n \in (a - 1) .. Len(seq)
            /\ \A i \in 1 .. Len(piece) : i + a - 1 = a + i - 1
        BY <2>1
      <4> HIDE DEF piece, n, a
      <4>2. /\ SubSeq(seq, a, n) \in Seq(Executed) /\ Len(SubSeq(seq, a, n)) = n - a + 1
            /\ \A i \in 1 .. n - a + 1 : SubSeq(seq, a, n)[i] = seq[a + i - 1]
        BY <4>1, SubSeqProperties
      <4> QED
        BY <4>1, <4>2
    <3> DEFINE sub == SubSeq(seq, a, n)
    <3>3. piece \in Seq(Executed)
      BY <2>1, KnownIsExecuted
    <3>4. /\ sub \in Seq(Executed) /\ Len(sub) = Len(piece)
          /\ \A i \in 1 .. Len(sub) : sub[i] = piece[i]
      BY <3>1, <3>2
    <3> HIDE DEF piece, sub
    <3>5. sub = piece
      BY <3>3, <3>4, SeqEqual
    <3> QED
      BY <3>5 DEF sub
  <2>3. k > 1 => S[k - 1] = start[k - 1]
    BY <1>2
  <2> QED
    BY <1>1, <2>1, <2>2, <2>3
<1>5. \E start2 \in [DOMAIN pieces -> DOMAIN seq] :
        \A k \in DOMAIN pieces :
          /\ k > 1 => start2[k] >= start2[k - 1] + Len(pieces[k - 1])
          /\ start2[k] + Len(pieces[k]) - 1 <= Len(seq)
          /\ pieces[k] = SubSeq(seq, start2[k], start2[k] + Len(pieces[k]) - 1)
  <2> HIDE DEF S
  <2> QED
    BY <1>3, <1>4
<1>6. ASSUME NEW k \in DOMAIN pieces,
             \A i \in DOMAIN pieces[k] : pieces[k][i].op \notin {"Jump", "JZ"}
      PROVE  Contract(pieces[k]).pop_d <= DataEffect[Head(pieces[k]).op].pop
  <2>1. pieces[k] \in Seq(Known) /\ pieces[k] # <<>> /\ Accepted(pieces[k])
    BY <1>1 DEF Pieces
  <2>2. PICK d \in Int : LivesOn(pieces[k], d)
    BY <1>1
  <2> QED
    BY <1>6, <2>1, <2>2, LivesOnItsOwn
<1> QED
  BY <1>5, <1>6

\* The segments of any trace are parts of it, in their order, and a segment
\* without branches can only run out of operands at its first instruction.
THEOREM PiecesHold == RunSpec => []PiecesAreApart
<1>1. RunInv => PiecesAreApart
  <2>1. SUFFICES ASSUME RunInv, NEW pieces, pieces = SafeSegments(code)
                 PROVE  /\ \E start \in [DOMAIN pieces -> DOMAIN code] :
                             \A k \in DOMAIN pieces :
                               /\ k > 1 => start[k] >= start[k - 1] + Len(pieces[k - 1])
                               /\ start[k] + Len(pieces[k]) - 1 <= Len(code)
                               /\ pieces[k] = SubSeq(code, start[k], start[k] + Len(pieces[k]) - 1)
                        /\ \A k \in DOMAIN pieces :
                             (\A i \in DOMAIN pieces[k] : pieces[k][i].op \notin {"Jump", "JZ"})
                               => Contract(pieces[k]).pop_d <= DataEffect[Head(pieces[k]).op].pop
    BY DEF PiecesAreApart
  <2>2. code \in Seq(Executed)
    <3>1. code \in Seq(Instruction)
      BY <2>1 DEF RunInv, TypeOK, StoreType
    <3>2. Len(code) \in Nat /\ \A i \in 1 .. Len(code) : code[i] \in Instruction
      BY <3>1
    <3> QED
      BY <3>1, <3>2, InstructionsAreExecuted
  <2>3. pieces \in Pieces /\ Apart(code, pieces, Len(code))
    BY <2>1, <2>2, SegmentsAreApart
  <2> QED
    BY <2>2, <2>3, ApartInOrder
<1> QED
  BY <1>1, RunInvHolds, PTL

-----------------------------------------------------------------------------
(***************************************************************************)
(* The shadow stack.                                                       *)
(***************************************************************************)
LEMMA ShadowIsFold ==
  ASSUME NEW seq
  PROVE  ShadowPass(seq, 0) = Shadowing!Fold([ok |-> TRUE, stack |-> <<>>], seq)
<1>1. [k \in 1 .. 0 |-> Unknown] = <<>>
  OBVIOUS
<1>2. ShadowPass(seq, 0) = FoldLeft(ShadowOne, [ok |-> TRUE, stack |-> <<>>], seq)
  BY <1>1 DEF ShadowPass
<1> QED
  BY <1>2 DEF FoldLeft, MapThenFoldSet, Max, Shadowing!Fold, Shadowing!FoldLeft,
         Shadowing!MapThenFoldSet, Shadowing!Max

LEMMA ShadowType ==
  ASSUME NEW seq \in Seq(Known)
  PROVE  ShadowPass(seq, 0) \in Shadows
<1> DEFINE none == [ok |-> TRUE, stack |-> <<>>]
<1>1. none \in Shadows
  BY DEF Shadows
<1>2. \A x \in Shadows, e \in Known : ShadowOne(x, e) \in Shadows
  BY ShadowTurn
<1> HIDE DEF none
<1>3. Shadowing!Fold(none, seq) \in Shadows
  BY <1>1, <1>2, Shadowing!FoldStaysIn
<1> QED
  BY <1>3, ShadowIsFold DEF none

\* The shadow stack of one instruction more.
LEMMA ShadowMore ==
  ASSUME NEW seq \in Seq(Known), NEW p \in 1 .. Len(seq)
  PROVE  ShadowPass(SubSeq(seq, 1, p), 0) = ShadowOne(ShadowPass(SubSeq(seq, 1, p - 1), 0), seq[p])
<1> DEFINE less == SubSeq(seq, 1, p - 1)
<1>1. p - 1 \in 0 .. Len(seq) /\ seq[p] \in Known /\ p \in 1 .. p /\ 1 \in 1 .. Len(seq)
  OBVIOUS
<1>2. less \in Seq(Known)
  BY <1>1, PrefixOfStack
<1>3. SubSeq(seq, 1, p) = less \o <<seq[p]>>
  BY <1>1, SubSeqRecursiveSecond
<1> HIDE DEF less
<1>4. less \o <<seq[p]>> = Append(less, seq[p])
  BY <1>1, <1>2
<1>5. Shadowing!Fold([ok |-> TRUE, stack |-> <<>>], Append(less, seq[p]))
        = ShadowOne(Shadowing!Fold([ok |-> TRUE, stack |-> <<>>], less), seq[p])
  BY <1>1, <1>2, Shadowing!FoldMore
<1> QED
  BY <1>3, <1>4, <1>5, ShadowIsFold DEF less

LEMMA ShadowNone == ShadowPass(<<>>, 0) = [ok |-> TRUE, stack |-> <<>>]
<1> DEFINE none == [ok |-> TRUE, stack |-> <<>>]
<1> HIDE DEF none
<1>1. <<>> \in Seq(Known) /\ Len(<<>>) = 0
  OBVIOUS
<1>2. PICK r : /\ r[0] = none
               /\ \A n \in 1 .. Len(<<>>) : r[n] = ShadowOne(r[n - 1], <<>>[n])
               /\ Shadowing!Fold(none, <<>>) = r[Len(<<>>)]
  BY <1>1, Shadowing!FoldRuns
<1> QED
  BY <1>1, <1>2, ShadowIsFold DEF none

\* The cells of a shadow stack that are known are on the data stack.
Mirrors(shadow) ==
  /\ d_depth = base + Len(shadow)
  /\ \A k \in DOMAIN shadow : shadow[k] # Unknown => d_stack[base + k] = Wrap(shadow[k][1])

\* What a pure instruction pushes when it succeeds, as far as the shadow
\* stack follows it.
Follows(out) ==
  /\ PopPush(out) /\ Len(out) = Pushed
  /\ instr.op = "Push" => out = <<Wrap(instr.data)>>
  /\ instr.op = "Dup" => out = <<Arg(1), Arg(1)>>
  /\ instr.op = "Swap" => out = <<Arg(1), Arg(2)>>
  /\ instr.op = "Add" => out = <<Wrap(Arg(2) + Arg(1))>>

LEMMA PureStep ==
  ASSUME TypeOK, at = "exec", instr.op \in Honest, instr.op \notin Impure,
         d_depth >= Arity(instr.op), VmStep, at' = "result", result'.status = "Done"
  PROVE  \E out : Follows(out)
<1> USE DEF Compute, Executing
<1>1. \A x : Len(<<x>>) = 1
  OBVIOUS
<1>2. CASE Push
  <2>1. instr.op = "Push" /\ PopPush(<<Wrap(instr.data)>>)
    BY <1>2 DEF Push
  <2> QED
    BY <1>1, <2>1, PushCounts DEF Follows, Pushed
<1>3. CASE Arithmetic
  <2>1. instr.op \in {"Add", "Sub", "Mul"} /\ PopPush(<<ArithmeticResult(instr.op, Arg(2), Arg(1))>>)
    BY <1>3 DEF Arithmetic, ArithmeticOps
  <2> QED
    BY <1>1, <2>1, PushCounts DEF Follows, Pushed, ArithmeticResult
<1>4. CASE Divide
  <2>1. instr.op = "Div"
    BY <1>4 DEF Divide, DivisionOps, Honest, Contracted
  <2>2. Len(DivisionResult(instr.op, Arg(2), Arg(1))) = 1
    BY <2>1 DEF DivisionResult
  <2> QED
    BY <1>4, <2>1, <2>2, PushCounts DEF Divide, Follows, Pushed
<1>5. CASE Shuffle
  <2>1. instr.op \in ShuffleOps \ {"Over"}
    BY <1>5 DEF Shuffle, Honest, Mistaken
  <2>2. Len(Shuffled(instr.op, Arg(3), Arg(2), Arg(1))) = Pushed
    BY <2>1, PushCounts DEF Shuffled, ShuffleOps, Pushed
  <2> QED
    BY <1>5, <2>1, <2>2 DEF Shuffle, Follows, Shuffled, ShuffleOps
<1>6. CASE Unary \/ Compare
  <2>1. instr.op \in {"Inc", "Dec", "Square", "IsZero", "Eq", "Lt", "Gt"}
    BY <1>6 DEF Unary, UnaryOps, Compare, CompareOps, Honest, Contracted
  <2>2. PICK x : PopPush(<<x>>)
    BY <1>6 DEF Unary, Compare
  <2> QED
    BY <1>1, <2>1, <2>2, PushCounts DEF Follows, Pushed
<1>7. CASE Output \/ Noop
  <2>1. instr.op = "Noop" /\ Len(<<>>) = 0 /\ PopPush(<<>>)
    BY <1>7 DEF Output, OutputOps, Noop, Impure
  <2> QED
    BY <2>1, PushCounts DEF Follows, Pushed
<1>8. CASE DivideByZero
  BY <1>8 DEF DivideByZero, Finish, Return
<1>9. CASE PushF \/ AbsInRange \/ AbsOverflow \/ Extreme \/ BitLogic \/ Shift \/ Constant
             \/ Pick \/ PickTooDeep \/ Roll \/ RollTooDeep
  BY <1>9 DEF PushF, AbsInRange, AbsOverflow, Extreme, BitLogic, Shift, Constant, Pick,
     PickTooDeep, Roll, RollTooDeep, ExtremeOps, BitOps, ShiftOps, ConstantOps, Honest,
     Contracted, Mistaken
<1>10. ComputeStep
  <2> USE DEF Refuse
  <2>1. ~(PastEnd \/ Decode \/ Exhaust \/ ReturnStep)
    BY DEF PastEnd, Decode, Exhaust, Crash, ReturnStep, WordGoesOn, WordReturns, ErrorEscapes,
       KeepRunning, RunEnds, UnwindThrow, UnwindError, NoHandler, InterpretReturns, RunLoopGets,
       Returned
  <2>2. ~Underflow
    BY DEF Underflow, Finish, Return
  <2>3. ~FrameStep
    BY DEF FrameStep, ToR, FromR, RFetch, EmptyR, Do, Loop, PLoop, NotInLoop, I, J, Impure,
       Honest, Contracted
  <2>4. ~MemoryStep
    BY DEF MemoryStep, FetchCell, StoreCell, FetchC, StoreC, OutOfMemory, AddressWraps,
       Comma, CommaNoRoom, Allot, CompileComma, Impure, Honest, Contracted
  <2>5. ~ControlStep
    BY DEF ControlStep, Jump, JZ, Call, CallNoWord, Ret, Execute, ExecuteNoWord, Catch,
       Throw, Yield, Stop, Impure, Honest, Contracted, Mistaken
  <2> QED
    BY <2>1, <2>2, <2>3, <2>4, <2>5 DEF VmStep
<1> QED
  BY <1>2, <1>3, <1>4, <1>5, <1>6, <1>7, <1>8, <1>9, <1>10 DEF ComputeStep

LEMMA OutAgrees ==
  ASSUME TypeOK, base \in Nat, instr \in Known, instr.op \in Honest, instr.op \notin Impure,
         d_depth >= Arity(instr.op), NEW shadow \in Seq(Symbols), Mirrors(shadow),
         Len(shadow) >= Pops, NEW out, Follows(out)
  PROVE  /\ Leaves(instr, shadow) \in Seq(Symbols) /\ Len(Leaves(instr, shadow)) = Pushed
         /\ \A j \in 1 .. Pushed :
              Leaves(instr, shadow)[j] # Unknown => out[j] = Wrap(Leaves(instr, shadow)[j][1])
<1>1. Len(shadow) \in Nat /\ Pops \in 0 .. 3 /\ Pushed \in 0 .. 4 /\ instr.data \in Int
  BY Depths0 DEF Known, Executed
<1>2. Leaves(instr, shadow) \in Seq(Symbols)
  BY LeavesSymbols DEF Pops
<1>3. ASSUME NEW i \in 1 .. Len(shadow)
      PROVE  Top(shadow, i) \in Symbols
             /\ (Top(shadow, i) # Unknown => Arg(i) = Wrap(Top(shadow, i)[1]))
  <2>1. Len(shadow) - i + 1 \in 1 .. Len(shadow) /\ base + (Len(shadow) - i + 1) = d_depth - i + 1
    BY <1>1 DEF Mirrors
  <2> QED
    BY <2>1 DEF Mirrors, Top, Arg
<1>4. CASE instr.op = "Push"
  <2>1. Leaves(instr, shadow) = << <<instr.data>> >> /\ out = <<Wrap(instr.data)>> /\ Pushed = 1
    BY <1>4, PushCounts DEF Leaves, Follows, Pushed
  <2>2. Len(<< <<instr.data>> >>) = 1 /\ << <<instr.data>> >>[1][1] = instr.data
        /\ <<Wrap(instr.data)>>[1] = Wrap(instr.data)
    OBVIOUS
  <2>3. \A j \in 1 .. 1 : j = 1
    OBVIOUS
  <2> QED
    BY <1>2, <2>1, <2>2, <2>3
<1>5. CASE instr.op = "Dup"
  <2> DEFINE t == Top(shadow, 1)
  <2>1. Leaves(instr, shadow) = <<t, t>> /\ out = <<Arg(1), Arg(1)>> /\ Pushed = 2
    BY <1>5, PushCounts DEF Leaves, Follows, Pushed
  <2>2. Pops = 1
    BY <1>5 DEF Pops, DataEffect, Takes, Contracted
  <2>3. t # Unknown => Arg(1) = Wrap(t[1])
    BY <1>1, <1>3, <2>2
  <2> HIDE DEF t
  <2>4. Len(<<t, t>>) = 2 /\ \A j \in 1 .. 2 : <<t, t>>[j] = t /\ <<Arg(1), Arg(1)>>[j] = Arg(1)
    OBVIOUS
  <2> QED
    BY <1>2, <2>1, <2>3, <2>4
<1>6. CASE instr.op = "Swap"
  <2> DEFINE t == Top(shadow, 1)
             u == Top(shadow, 2)
  <2>1. Leaves(instr, shadow) = <<t, u>> /\ out = <<Arg(1), Arg(2)>> /\ Pushed = 2
    BY <1>6, PushCounts DEF Leaves, Follows, Pushed
  <2>2. Pops = 2
    BY <1>6 DEF Pops, DataEffect, Takes, Contracted
  <2>3. (t # Unknown => Arg(1) = Wrap(t[1])) /\ (u # Unknown => Arg(2) = Wrap(u[1]))
    BY <1>1, <1>3, <2>2
  <2> HIDE DEF t, u
  <2>4. Len(<<t, u>>) = 2 /\ <<t, u>>[1] = t /\ <<t, u>>[2] = u
        /\ <<Arg(1), Arg(2)>>[1] = Arg(1) /\ <<Arg(1), Arg(2)>>[2] = Arg(2)
        /\ \A j \in 1 .. 2 : j = 1 \/ j = 2
    OBVIOUS
  <2> QED
    BY <1>2, <2>1, <2>3, <2>4
<1>7. CASE instr.op = "Add"
  <2> DEFINE t == Top(shadow, 1)
             u == Top(shadow, 2)
             s == Sum(t, u)
  <2>1. Leaves(instr, shadow) = <<s>> /\ out = <<Wrap(Arg(2) + Arg(1))>> /\ Pushed = 1
    BY <1>7, PushCounts DEF Leaves, Follows, Pushed
  <2>2. Pops = 2
    BY <1>7 DEF Pops, DataEffect, Takes, Contracted
  <2>3. /\ t \in Symbols /\ u \in Symbols
        /\ t # Unknown => Arg(1) = Wrap(t[1])
        /\ u # Unknown => Arg(2) = Wrap(u[1])
    BY <1>1, <1>3, <2>2
  <2>4. s # Unknown => Wrap(Arg(2) + Arg(1)) = Wrap(s[1])
    <3>1. SUFFICES ASSUME s # Unknown PROVE Wrap(Arg(2) + Arg(1)) = Wrap(s[1])
      OBVIOUS
    <3>2. t # Unknown /\ u # Unknown /\ s = <<t[1] + u[1]>> /\ t[1] \in Int /\ u[1] \in Int
      BY <2>3, <3>1, SumSymbol
    <3>3. s[1] = t[1] + u[1]
      BY <3>2
    <3> QED
      BY <2>3, <3>2, <3>3, WrapSum
  <2> HIDE DEF s
  <2>5. Len(<<s>>) = 1 /\ <<s>>[1] = s /\ <<Wrap(Arg(2) + Arg(1))>>[1] = Wrap(Arg(2) + Arg(1))
        /\ \A j \in 1 .. 1 : j = 1
    OBVIOUS
  <2> QED
    BY <1>2, <2>1, <2>4, <2>5
<1>8. CASE instr.op \notin {"Push", "Dup", "Swap", "Add"}
  <2>1. Leaves(instr, shadow) = [k \in 1 .. Pushed |-> Unknown]
    BY <1>8 DEF Leaves, Honest, Mistaken, Pushed
  <2>2. Len([k \in 1 .. Pushed |-> Unknown]) = Pushed
    BY <1>1
  <2> QED
    BY <1>2, <2>1, <2>2
<1> QED
  BY <1>4, <1>5, <1>6, <1>7, <1>8

LEMMA MirrorStep ==
  ASSUME TypeOK, base \in Nat, instr \in Known, instr.op \in Honest, instr.op \notin Impure,
         d_depth >= Arity(instr.op), NEW shadow \in Shadows, Mirrors(shadow.stack),
         Len(shadow.stack) >= Pops, NEW out, Follows(out), result'.status = "Done",
         NEW S, S = ShadowOne(shadow, instr).stack
  PROVE  /\ d_depth' = base + Len(S)
         /\ \A k \in DOMAIN S : S[k] # Unknown => d_stack'[base + k] = Wrap(S[k][1])
<1> DEFINE stack == shadow.stack
           rest == Len(stack) - Pops
           left == d_depth - Pops
           low == SubSeq(stack, 1, rest)
           new == Leaves(instr, stack)
           more == low \o new
<1>1. stack \in Seq(Symbols) /\ Len(stack) \in Nat
  BY DEF Shadows
<1>2. /\ Pops \in 0 .. 3 /\ Pushed \in 0 .. 4 /\ Pops = Arity(instr.op) /\ d_depth \in Nat
      /\ left \in 0 .. PushLimit /\ PushLimit \in Nat
  BY Depths0
<1>3. /\ new \in Seq(Symbols) /\ Len(new) = Pushed
      /\ \A j \in 1 .. Pushed : new[j] # Unknown => out[j] = Wrap(new[j][1])
  BY <1>1, OutAgrees
<1>4. low \in Seq(Symbols) /\ Len(low) = rest /\ \A i \in 1 .. rest : low[i] = stack[i]
  <2>1. rest \in 0 .. Len(stack)
    BY <1>1, <1>2
  <2> QED
    BY <1>1, <2>1, PrefixOfStack
<1>5. ShadowOne(shadow, instr).stack = more
  <2>1. ~(Len(stack) < Pops)
    BY <1>1, <1>2
  <2>2. ShadowOne(shadow, instr) = [shadow EXCEPT !.stack = more]
    BY <2>1 DEF ShadowOne, Pops
  <2> HIDE DEF more
  <2> QED
    BY <2>2 DEF Shadows
<1> HIDE DEF low, new
<1>6. /\ DOMAIN more = 1 .. rest + Pushed /\ Len(more) = rest + Pushed
      /\ \A k \in 1 .. rest : more[k] = stack[k]
      /\ \A k \in rest + 1 .. rest + Pushed : more[k] = new[k - rest]
  <2>1. rest \in Nat
    BY <1>1, <1>2
  <2> HIDE DEF rest
  <2>2. /\ Len(more) = rest + Pushed /\ DOMAIN more = 1 .. rest + Pushed
        /\ \A k \in 1 .. rest + Pushed : more[k] = IF k <= rest THEN low[k] ELSE new[k - rest]
    BY <1>2, <1>3, <1>4, <2>1
  <2> HIDE DEF more
  <2> QED
    BY <1>2, <1>4, <2>1, <2>2
<1> HIDE DEF more
<1>7. /\ d_depth' = left + Pushed
      /\ d_stack' = [s \in Slots |-> IF s \in (left + 1) .. (left + Pushed) THEN out[s - left]
                                                                           ELSE d_stack[s]]
  <2>1. /\ d_depth' = Least(left + Pushed, PushLimit)
        /\ d_stack' = [s \in Slots |-> IF s \in (left + 1) .. Least(left + Pushed, PushLimit)
                                       THEN out[s - left] ELSE d_stack[s]]
        /\ Finish(IF left + Pushed <= PushLimit THEN "Done" ELSE "Err")
    BY <1>2 DEF Follows, PopPush
  <2>2. left + Pushed <= PushLimit
    BY <2>1 DEF Finish, Return
  <2>3. Least(left + Pushed, PushLimit) = left + Pushed
    BY <2>2 DEF Least
  <2> QED
    BY <2>1, <2>3
<1>8. left = base + rest /\ rest \in Nat /\ d_depth = base + Len(stack)
  BY <1>1, <1>2 DEF Mirrors
<1>9. left + Pushed <= PushLimit
  BY <1>7, <1>2, StackAssumption DEF Least, Follows, PopPush
<1>10. ASSUME NEW k \in 1 .. rest + Pushed, more[k] # Unknown
       PROVE  d_stack'[base + k] = Wrap(more[k][1])
  <2>1. base + k \in Slots
    BY <1>2, <1>8, <1>9, StackAssumption DEF Slots
  <2>2. CASE k \in 1 .. rest
    <3>1. base + k \notin (left + 1) .. (left + Pushed)
      BY <1>2, <1>8, <2>2
    <3>2. d_stack'[base + k] = d_stack[base + k]
      BY <1>7, <2>1, <3>1
    <3>3. more[k] = stack[k] /\ k \in DOMAIN stack
      BY <1>1, <1>2, <1>6, <2>2
    <3> QED
      BY <1>10, <3>2, <3>3 DEF Mirrors
  <2>3. CASE k \in rest + 1 .. rest + Pushed
    <3>1. base + k \in (left + 1) .. (left + Pushed) /\ (base + k) - left = k - rest
          /\ k - rest \in 1 .. Pushed
      <4>1. left \in Int /\ Pushed \in Int /\ rest \in Int /\ base \in Int
        BY <1>2, <1>8
      <4>2. left = base + rest
        BY <1>8
      <4> HIDE DEF left, rest
      <4>3. k \in Int /\ rest + 1 <= k /\ k <= rest + Pushed
        BY <2>3, <4>1
      <4> QED
        BY <4>1, <4>2, <4>3
    <3>2. d_stack'[base + k] = out[k - rest]
      BY <1>7, <2>1, <3>1
    <3>3. more[k] = new[k - rest]
      BY <1>6, <2>3
    <3> QED
      BY <1>3, <1>10, <3>1, <3>2, <3>3
  <2> QED
    BY <1>2, <1>8, <2>2, <2>3
<1>11. d_depth' = base + Len(more)
  BY <1>2, <1>6, <1>7, <1>8
<1> QED
  BY <1>5, <1>6, <1>10, <1>11

-----------------------------------------------------------------------------
(***************************************************************************)
(* The stack of the run is the shadow stack.                               *)
(***************************************************************************)
ShadowIsStack ==
  OnTheWay /\ Foldable(code) => Mirrors(ShadowPass(SubSeq(code, 1, Place), 0).stack)

\* A sequence that folds takes no cells, and has no instruction that does
\* more than change the data stack.
LEMMA FoldableRun ==
  ASSUME RunInv, base # -1, Foldable(code)
  PROVE  /\ Supplied /\ base \in Nat /\ code \in Seq(Known) /\ Len(code) \in Nat
         /\ \A i \in 1 .. Len(code) : code[i].op \notin Impure /\ code[i].op \in Honest
<1>1. TypeOK /\ Trusted /\ base \in Nat
  BY DEF RunInv, RunsOnce
<1>2. code \in Seq(Instruction) /\ Len(code) \in Nat /\ DOMAIN code = 1 .. Len(code)
  BY <1>1, LenProperties DEF TypeOK, StoreType
<1>3. Contract(code).pop_d = 0 /\ Pure(code)
  BY DEF Foldable
<1>4. ASSUME NEW i \in 1 .. Len(code)
      PROVE  code[i].op \notin Impure /\ code[i].op \in Honest /\ code[i] \in Known
  <2>1. i - 1 \in 0 .. Len(code) - 1 /\ (i - 1) + 1 = i
    BY <1>2
  <2>2. SaysOf(DepthPass(code), code, i - 1) /\ code[i].op \in Honest
    BY <1>1, <2>1, TrustedPass
  <2> QED
    BY <1>2, <1>3, <2>1, <2>2 DEF SaysOf, Pure
<1>5. code \in Seq(Known)
  BY <1>2, <1>4
<1> QED
  BY <1>1, <1>2, <1>3, <1>4, <1>5 DEF Supplied

LEMMA ShadowExecKeeps ==
  ASSUME RunInv, ShadowIsStack, at = "exec", base # -1, VmStep, UNCHANGED base
  PROVE  ShadowIsStack'
<1>1. /\ ip - 1 \in 0 .. Len(code) - 1 /\ instr.op \in Honest
      /\ SaysOf(DepthPass(code), code, ip - 1) /\ code[(ip - 1) + 1] = instr /\ (ip - 1) + 1 = ip
  BY PlaceOfExec
<1>2. TypeOK /\ Trusted /\ base \in Nat
  BY DEF RunInv, RunsOnce
<1>3. CASE d_depth < Arity(instr.op)
  <2>1. Underflow
    BY <1>2, <1>3, OnlyUnderflows, ArityType DEF TypeOK, DataType
  <2>2. at' = "result" /\ result'.status = "Err"
    BY <2>1 DEF Underflow, Finish, Return
  <2> QED
    BY <2>2 DEF ShadowIsStack, OnTheWay
<1>4. CASE d_depth >= Arity(instr.op)
  <2>1. AsContracted
    BY <1>1, <1>2, <1>4, StepAsContracted
  <2>2. code' = code /\ base' = base
    BY <2>1 DEF AsContracted
  <2>3. SUFFICES ASSUME OnTheWay', Foldable(code)
                 PROVE  Mirrors(ShadowPass(SubSeq(code, 1, Place), 0).stack)'
    BY <2>2 DEF ShadowIsStack
  <2>4. /\ at' = "result" /\ result'.status = "Done" /\ Place' = ip' /\ ip' \in Exits(instr, ip)
    BY <2>1, <2>3 DEF AsContracted, OnTheWay, Place
  <2>5. /\ Supplied /\ code \in Seq(Known) /\ Len(code) \in Nat
        /\ \A i \in 1 .. Len(code) : code[i].op \notin Impure /\ code[i].op \in Honest
    BY <2>3, FoldableRun
  <2>6. ip \in 1 .. Len(code) /\ instr = code[ip] /\ instr \in Known /\ instr.op \notin Impure
    <3>1. ip \in 1 .. Len(code) /\ instr = code[ip]
      BY DEF RunInv, RunsOnce
    <3> QED
      BY <2>5, <3>1
  <2>7. ip' = ip
    BY <2>4, <2>6 DEF Exits, Impure
  <2> DEFINE shadow == ShadowPass(SubSeq(code, 1, ip - 1), 0)
             S == ShadowOne(shadow, instr).stack
  <2>8. Mirrors(shadow.stack)
    BY <2>3 DEF ShadowIsStack, OnTheWay, Place
  <2>9. shadow \in Shadows
    <3>1. ip - 1 \in 0 .. Len(code)
      BY <1>1, <2>5
    <3>2. SubSeq(code, 1, ip - 1) \in Seq(Known)
      BY <2>5, <3>1, PrefixOfStack
    <3> QED
      BY <3>2, ShadowType
  <2>10. ShadowPass(SubSeq(code, 1, ip), 0).stack = S
    BY <2>5, <2>6, ShadowMore
  <2> HIDE DEF shadow
  <2>11. Len(shadow.stack) >= Pops
    <3> DEFINE from == DepthPass(code).depth[ip - 1]
               low == DepthPass(code).low[1]
    <3>1. from \in Int \X Int /\ low <= Taken(instr, from)[1]
      BY <1>1 DEF SaysOf
    <3>2. Taken(instr, from)[1] = from[1] - Pops
      BY DEF Taken, Pops
    <3>3. Contract(code).pop_d = -low /\ low \in Int /\ Contract(code).pop_d = 0
      BY <1>2, <2>3, TrustedPass DEF Foldable
    <3>4. d_depth = base + from[1]
      BY <2>5 DEF RunInv, DepthsAsPassed, OnTheWay, Place
    <3>5. d_depth = base + Len(shadow.stack) /\ Len(shadow.stack) \in Nat
      BY <2>8, <2>9 DEF Mirrors, Shadows
    <3> HIDE DEF from, low
    <3>6. Pops \in 0 .. 3
      BY <1>1, <1>2, <1>4, Depths0
    <3>7. PICK f : f = from[1]
      OBVIOUS
    <3>8. f \in Int /\ 0 <= f - Pops /\ base + f = base + Len(shadow.stack)
      BY <3>1, <3>2, <3>3, <3>4, <3>5, <3>7
    <3> QED
      BY <1>2, <3>5, <3>6, <3>8
  <2>12. PICK out : Follows(out)
    BY <1>1, <1>2, <1>4, <2>4, <2>6, PureStep
  <2>13. PICK T : T = S
    OBVIOUS
  <2> HIDE DEF S
  <2>14. /\ d_depth' = base + Len(T)
         /\ \A k \in DOMAIN T : T[k] # Unknown => d_stack'[base + k] = Wrap(T[k][1])
    BY <1>1, <1>2, <1>4, <2>4, <2>6, <2>8, <2>9, <2>11, <2>12, <2>13, MirrorStep DEF S
  <2>15. ShadowPass(SubSeq(code', 1, Place'), 0).stack = T
    BY <2>2, <2>4, <2>7, <2>10, <2>13
  <2> QED
    BY <2>2, <2>14, <2>15 DEF Mirrors
<1> QED
  BY <1>2, <1>3, <1>4, ArityType DEF TypeOK, DataType

LEMMA ShadowKeeps ==
  ASSUME RunInv, RunInv', ShadowIsStack, [RunNext]_<<vars, base>>
  PROVE  ShadowIsStack'
<1>1. CASE InterpretNumber /\ UNCHANGED base /\ base = -1
  BY <1>1 DEF ShadowIsStack, OnTheWay
<1>2. CASE StartRun /\ base' = d_depth /\ base = -1
  <2>1. SUFFICES ASSUME Foldable(code')
                 PROVE  Mirrors(ShadowPass(SubSeq(code, 1, Place), 0).stack)'
    BY DEF ShadowIsStack
  <2>2. at' = "step" /\ ip' = 0 /\ code' = code /\ d_depth' = d_depth /\ d_depth \in Int
    <3>1. d_depth \in Int /\ ip = 0
      BY <1>2, StackAssumption DEF RunInv, RunsOnce, TypeOK, DataType
    <3> QED
      BY <1>2, <3>1 DEF StartRun, store, data, frames
  <2>3. SubSeq(code', 1, Place') = <<>>
    BY <2>2 DEF Place
  <2>4. ShadowPass(SubSeq(code', 1, Place'), 0).stack = <<>>
    <3>1. \A seq : seq = <<>> => ShadowPass(seq, 0).stack = <<>>
      BY ShadowNone
    <3> QED
      BY <2>3, <3>1, Zenon
  <2>5. d_depth' = base' + Len(<<>>) /\ DOMAIN <<>> = {}
    BY <1>2, <2>2
  <2>6. PICK S : S = <<>>
    OBVIOUS
  <2>7. /\ ShadowPass(SubSeq(code', 1, Place'), 0).stack = S
        /\ d_depth' = base' + Len(S) /\ DOMAIN S = {}
    BY <2>4, <2>5, <2>6
  <2> QED
    BY <2>7 DEF Mirrors
<1>3. CASE VmStep /\ UNCHANGED base
  <2>1. CASE at \in {"step", "result"}
    <3>1. /\ code' = code /\ d_depth' = d_depth /\ d_stack' = d_stack /\ base' = base
          /\ OnTheWay' => OnTheWay /\ Place' = Place
      BY <1>3, <2>1, Between
    <3> QED
      BY <3>1 DEF ShadowIsStack, Mirrors
  <2>2. CASE at = "exec"
    <3>1. base # -1
      BY <2>2 DEF RunInv, RunsOnce
    <3> QED
      BY <1>3, <2>2, <3>1, ShadowExecKeeps
  <2>3. CASE at \in {"idle", "crash"}
    BY <1>3, <2>3, IdleRuns
  <2> QED
    BY <2>1, <2>2, <2>3 DEF RunInv, TypeOK, ControlType
<1>4. CASE UNCHANGED <<vars, base>>
  BY <1>4 DEF ShadowIsStack, Mirrors, OnTheWay, Place, vars, store, data, frames, caller
<1> QED
  BY <1>1, <1>2, <1>3, <1>4 DEF RunNext, Before

\* Where a sequence is folded into literals, its run leaves these literals,
\* in the width of a cell, and nothing else.
THEOREM FoldedHolds == RunSpec => []FoldAgrees
<1>1. RunInit => RunInv /\ ShadowIsStack
  BY RunStarts DEF RunInit, ShadowIsStack, OnTheWay
<1>2. RunInv /\ ShadowIsStack /\ [RunNext]_<<vars, base>> => RunInv' /\ ShadowIsStack'
  BY RunKeeps, ShadowKeeps
<1>3. RunInv /\ ShadowIsStack => FoldAgrees
  <2>1. SUFFICES ASSUME RunInv, ShadowIsStack, Leaving, Foldable(code),
                        NEW folded, folded = Folded(code)
                 PROVE  /\ d_depth = base + Len(folded)
                        /\ \A k \in DOMAIN folded : d_stack[base + k] = Wrap(folded[k].data)
    BY DEF FoldAgrees
  <2> DEFINE shadow == ShadowPass(code, 0).stack
  <2>2. base # -1 /\ code \in Seq(Known) /\ Len(code) \in Nat
    BY <2>1, FoldableRun DEF Leaving
  <2>3. SubSeq(code, 1, Len(code)) = code
    BY <2>2, SubSeqFull
  <2>4. Mirrors(shadow)
    BY <2>1, <2>3 DEF ShadowIsStack, OnTheWay, Place, Leaving
  <2>5. \A k \in DOMAIN shadow : shadow[k] # Unknown
    BY <2>1 DEF Foldable
  <2>6. shadow \in Seq(Symbols)
    BY <2>2, ShadowType DEF Shadows
  <2>7. folded = Pushes(shadow)
    BY <2>1 DEF Folded
  <2> HIDE DEF shadow
  <2>8. /\ DOMAIN folded = DOMAIN shadow /\ Len(folded) = Len(shadow)
        /\ \A k \in DOMAIN folded : folded[k].data = shadow[k][1]
    BY <2>6, <2>7 DEF Pushes
  <2> QED
    BY <2>4, <2>5, <2>8 DEF Mirrors
<1> QED
  BY <1>1, <1>2, <1>3, PTL DEF RunSpec

=============================================================================
