---------------------------- MODULE TiersProofs ----------------------------
(***************************************************************************)
(* Theorems about Tiers, for every program, bound and trap: the two tiers  *)
(* together implement the interpreter alone.                               *)
(***************************************************************************)
EXTENDS Tiers, VmProofs, OptimizerProofs

-----------------------------------------------------------------------------
(***************************************************************************)
(* The interpreter's operators under the refinement mapping.  Tier1!F is F *)
(* with entry_ip and entry_depth for ip and d_depth; in a step that does   *)
(* not touch a block they are the same, and so is every operator.          *)
(***************************************************************************)
Outside ==
  /\ entry_ip = ip /\ entry_ip' = ip'
  /\ entry_depth = d_depth /\ entry_depth' = d_depth'

LEMMA SameSets ==
  /\ Tier1!Val = Val /\ Tier1!Half = Half /\ Tier1!Slots = Slots /\ Tier1!Addr = Addr
  /\ Tier1!Nop = Nop /\ Tier1!Done = Done
  BY DEF Val, Half, Slots, Addr, Nop, Done,
         Tier1!Val, Tier1!Half, Tier1!Slots, Tier1!Addr, Tier1!Nop, Tier1!Done

LEMMA SameOps ==
  /\ Tier1!ArithmeticOps = ArithmeticOps /\ Tier1!DivisionOps = DivisionOps
  /\ Tier1!ShuffleOps = ShuffleOps /\ Tier1!UnaryOps = UnaryOps
  /\ Tier1!BitOps = BitOps /\ Tier1!ShiftOps = ShiftOps
  /\ Tier1!ExtremeOps = ExtremeOps /\ Tier1!CompareOps = CompareOps
  /\ Tier1!ConstantOps = ConstantOps /\ Tier1!OutputOps = OutputOps
  BY DEF ArithmeticOps, DivisionOps, ShuffleOps, UnaryOps, BitOps, ShiftOps, ExtremeOps,
         CompareOps, ConstantOps, OutputOps,
         Tier1!ArithmeticOps, Tier1!DivisionOps, Tier1!ShuffleOps, Tier1!UnaryOps,
         Tier1!BitOps, Tier1!ShiftOps, Tier1!ExtremeOps, Tier1!CompareOps,
         Tier1!ConstantOps, Tier1!OutputOps

LEMMA SameArity ==
  ASSUME NEW op
  PROVE  Tier1!Arity(op) = Arity(op)
  BY SameOps DEF Arity, TakesTwo, TakesOne,
                 Tier1!Arity, Tier1!TakesTwo, Tier1!TakesOne

LEMMA SameWord ==
  ASSUME NEW x
  PROVE  /\ Tier1!Wrap(x) = Wrap(x)
         /\ Tier1!Flag(x) = Flag(x)
         /\ Tier1!Magnitude(x) = Magnitude(x)
         /\ Tier1!Bytes(x) = Bytes(x)
  BY SameSets DEF Wrap, Flag, Magnitude, Bytes,
       Tier1!Wrap, Tier1!Flag, Tier1!Magnitude, Tier1!Bytes

LEMMA SameWords ==
  ASSUME NEW x, NEW y
  PROVE  /\ Tier1!Least(x, y) = Least(x, y)
         /\ Tier1!Bit(x, y) = Bit(x, y)
  BY SameSets DEF Least, Bit, Tier1!Least, Tier1!Bit

LEMMA SameShiftCount ==
  ASSUME NEW n
  PROVE  Tier1!ShiftCount(n) = ShiftCount(n)
  BY SameWords DEF ShiftCount, Tier1!ShiftCount

LEMMA SameQuotient ==
  ASSUME NEW b, NEW a
  PROVE  /\ Tier1!Quotient(b, a) = Quotient(b, a)
         /\ Tier1!Remainder(b, a) = Remainder(b, a)
  BY SameWord DEF Quotient, Remainder, Tier1!Quotient, Tier1!Remainder

LEMMA SameResults ==
  ASSUME NEW op, NEW c, NEW b, NEW a
  PROVE  /\ Tier1!ArithmeticResult(op, b, a) = ArithmeticResult(op, b, a)
         /\ Tier1!DivisionResult(op, b, a) = DivisionResult(op, b, a)
         /\ Tier1!Shuffled(op, c, b, a) = Shuffled(op, c, b, a)
         /\ Tier1!UnaryResult(op, a) = UnaryResult(op, a)
         /\ Tier1!BitResult(op, b, a) = BitResult(op, b, a)
         /\ Tier1!Compared(op, b, a) = Compared(op, b, a)
  BY SameWord, SameQuotient
     DEF ArithmeticResult, DivisionResult, Shuffled, UnaryResult, BitResult, Compared,
         Tier1!ArithmeticResult, Tier1!DivisionResult, Tier1!Shuffled,
         Tier1!UnaryResult, Tier1!BitResult, Tier1!Compared

LEMMA SameArg ==
  ASSUME Outside, NEW i
  PROVE  Tier1!Arg(i) = Arg(i)
  BY DEF Outside, Arg, Tier1!Arg

LEMMA SameReturns ==
  ASSUME NEW status, NEW value
  PROVE  /\ Return(status, value) <=> Tier1!Return(status, value)
         /\ Finish(status) <=> Tier1!Finish(status)
         /\ Crash(status) <=> Tier1!Crash(status)
         /\ Returned(status) <=> Tier1!Returned(status)
         /\ RunLoopGets(status) <=> Tier1!RunLoopGets(status)
  BY SameSets DEF Return, Finish, Crash, Returned, RunLoopGets,
       Tier1!Return, Tier1!Finish, Tier1!Crash, Tier1!Returned, Tier1!RunLoopGets

LEMMA SameExecuting ==
  ASSUME Outside, NEW ops
  PROVE  Executing(ops) <=> Tier1!Executing(ops)
  BY SameArity DEF Outside, Executing, Tier1!Executing

LEMMA SamePop ==
  ASSUME Outside
  PROVE  Pop <=> Tier1!Pop
  BY SameArity DEF Outside, Pop, Tier1!Pop

LEMMA SamePopPush ==
  ASSUME Outside, NEW out, PopPush(out)
  PROVE  Tier1!PopPush(out)
  BY SameArity, SameSets, SameWords, SameReturns DEF Outside, PopPush, Tier1!PopPush

LEMMA SameCompute ==
  ASSUME Outside, NEW ops, NEW out, Compute(ops, out)
  PROVE  Tier1!Compute(ops, out)
  BY SameExecuting, SamePopPush DEF Outside, Compute, Tier1!Compute,
       store, frames, caller, Tier1!store, Tier1!frames, Tier1!caller

LEMMA SameRefuse ==
  ASSUME Outside, NEW ops, Refuse(ops)
  PROVE  Tier1!Refuse(ops)
  BY SameExecuting, SamePop, SameReturns DEF Outside, Refuse, Tier1!Refuse,
       store, frames, caller, Tier1!store, Tier1!frames, Tier1!caller

LEMMA SamePlaces ==
  ASSUME NEW a
  PROVE  /\ Tier1!InCode(a) <=> InCode(a)
         /\ Tier1!IsWord(a) <=> IsWord(a)
         /\ Tier1!CellFits(a) <=> CellFits(a)
         /\ Tier1!WrapsPast(a) <=> WrapsPast(a)
         /\ Tier1!Aligned(a) = Aligned(a)
  BY DEF InCode, IsWord, CellFits, WrapsPast, Aligned,
       Tier1!InCode, Tier1!IsWord, Tier1!CellFits, Tier1!WrapsPast, Tier1!Aligned

LEMMA SameCell ==
  ASSUME NEW a
  PROVE  Tier1!CellAt(a) = CellAt(a)
  BY SameSets, SameWord DEF CellAt, Tier1!CellAt

LEMMA SameWithCell ==
  ASSUME NEW a, NEW v
  PROVE  Tier1!WithCell(a, v) = WithCell(a, v)
  BY SameSets, SameWord DEF WithCell, Tier1!WithCell

LEMMA SameSequences ==
  ASSUME NEW s
  PROVE  Tier1!Last(s) = Last(s) /\ Tier1!Front(s) = Front(s)
  BY DEF Last, Front, Tier1!Last, Tier1!Front

LEMMA SameLoop ==
  ASSUME NEW delta
  PROVE  Tier1!LoopNext(delta) = LoopNext(delta) /\ Tier1!LoopLimit = LoopLimit
  BY SameWord, SameSequences DEF LoopNext, LoopLimit, Tier1!LoopNext, Tier1!LoopLimit

LEMMA SameEdge ==
  ASSUME Outside, NEW again, NEW next, LoopEdge(again, next)
  PROVE  Tier1!LoopEdge(again, next)
  BY DEF Outside, LoopEdge, Tier1!LoopEdge

LEMMA SameGoTo ==
  ASSUME Outside, NEW target, GoTo(target)
  PROVE  Tier1!GoTo(target) /\ Tier1!Target = Target
  BY SamePlaces, SameReturns DEF Outside, GoTo, Target, Tier1!GoTo, Tier1!Target

LEMMA SameEnter ==
  ASSUME Outside, NEW entry, EnterWord(entry)
  PROVE  Tier1!EnterWord(entry)
  BY SameSets DEF Outside, EnterWord, Tier1!EnterWord

LEMMA SameUnwind ==
  ASSUME Outside, NEW code_, Unwind(code_)
  PROVE  Tier1!Unwind(code_)
  BY SameSets, SameSequences DEF Outside, Unwind, Truncate, store,
       Tier1!Unwind, Tier1!Truncate, Tier1!store

-----------------------------------------------------------------------------
(***************************************************************************)
(* The steps of the interpreter, group by group.                           *)
(***************************************************************************)
LEMMA ComputeMaps ==
  ASSUME Outside, ComputeStep
  PROVE  Tier1!ComputeStep
<1>1. ASSUME Push PROVE Tier1!Push
  BY <1>1, SameCompute, SameWord DEF Push, Tier1!Push
<1>2. ASSUME PushF PROVE Tier1!PushF
  BY <1>2, SameExecuting, SameReturns DEF Outside, PushF, store, caller, data,
     Tier1!PushF, Tier1!store, Tier1!caller, Tier1!data
<1>3. ASSUME Arithmetic PROVE Tier1!Arithmetic
  BY <1>3, SameCompute, SameOps, SameResults, SameArg DEF Arithmetic, Tier1!Arithmetic
<1>4. ASSUME Divide PROVE Tier1!Divide
  BY <1>4, SameCompute, SameExecuting, SameOps, SameResults, SameArg DEF Divide,
     Tier1!Divide
<1>5. ASSUME DivideByZero PROVE Tier1!DivideByZero
  BY <1>5, SameExecuting, SameOps, SameArg, SameReturns DEF Outside, DivideByZero,
     store, frames, caller, Tier1!DivideByZero, Tier1!store, Tier1!frames,
     Tier1!caller
<1>6. ASSUME Shuffle PROVE Tier1!Shuffle
  BY <1>6, SameCompute, SameOps, SameResults, SameArg DEF Shuffle, Tier1!Shuffle
<1>7. ASSUME Unary PROVE Tier1!Unary
  BY <1>7, SameCompute, SameOps, SameResults, SameArg DEF Unary, Tier1!Unary
<1>8. ASSUME AbsInRange PROVE Tier1!AbsInRange
  BY <1>8, SameCompute, SameExecuting, SameSets, SameWord, SameArg DEF AbsInRange,
     Tier1!AbsInRange
<1>9. ASSUME AbsOverflow PROVE Tier1!AbsOverflow
  BY <1>9, SameExecuting, SameSets, SameArg, SamePop, SamePopPush, SameReturns DEF
     Outside, AbsOverflow, store, frames, caller, Tier1!AbsOverflow, Tier1!store,
     Tier1!frames, Tier1!caller
<1>10. ASSUME Extreme PROVE Tier1!Extreme
  BY <1>10, SameCompute, SameOps, SameArg DEF Extreme, Tier1!Extreme
<1>11. ASSUME BitLogic PROVE Tier1!BitLogic
  <2> DEFINE W == CHOOSE v \in Val : \A i \in 0 .. (Width - 1) :
                    Bit(v, i) = BitResult(instr.op, Bit(Arg(2), i), Bit(Arg(1), i))
             V == CHOOSE v \in Tier1!Val : \A i \in 0 .. (Width - 1) :
                    Tier1!Bit(v, i) = Tier1!BitResult(instr.op, Tier1!Bit(Tier1!Arg(2), i),
                                                      Tier1!Bit(Tier1!Arg(1), i))
  <2>1. V = W
    BY SameSets, SameArg DEF Bit, BitResult, Tier1!Bit, Tier1!BitResult
  <2>2. Compute(BitOps, <<W>>)
    BY <1>11 DEF BitLogic
  <2> HIDE DEF V, W
  <2>3. Tier1!Compute(Tier1!BitOps, <<V>>)
    BY <2>1, <2>2, SameCompute, SameOps
  <2> QED
    BY <2>3 DEF V, Tier1!BitLogic
<1>12. ASSUME Shift PROVE Tier1!Shift
  BY <1>12, SameCompute, SameOps, SameSets, SameWord, SameShiftCount, SameArg DEF
     Shift, Tier1!Shift
<1>13. ASSUME Compare PROVE Tier1!Compare
  BY <1>13, SameCompute, SameOps, SameResults, SameArg DEF Compare, Tier1!Compare
<1>14. ASSUME Constant PROVE Tier1!Constant
  BY <1>14, SameCompute, SameOps, SameWord DEF Outside, Constant, Tier1!Constant
<1>15. ASSUME Output PROVE Tier1!Output
  BY <1>15, SameCompute, SameOps DEF Output, Tier1!Output
<1>16. ASSUME Noop PROVE Tier1!Noop
  BY <1>16, SameCompute DEF Noop, Tier1!Noop
<1>17. ASSUME Pick PROVE Tier1!Pick
  BY <1>17, SameCompute, SameExecuting, SameArg DEF Outside, Pick, Tier1!Pick
<1>18. ASSUME PickTooDeep PROVE Tier1!PickTooDeep
  BY <1>18, SameRefuse, SameExecuting, SameArg DEF Outside, PickTooDeep,
     Tier1!PickTooDeep
<1>19. ASSUME Roll PROVE Tier1!Roll
  BY <1>19, SameExecuting, SameSets, SameArg, SameReturns DEF Outside, Roll, store,
     frames, caller, Tier1!Roll, Tier1!store, Tier1!frames, Tier1!caller
<1>20. ASSUME RollTooDeep PROVE Tier1!RollTooDeep
  BY <1>20, SameRefuse, SameExecuting, SameArg DEF Outside, RollTooDeep,
     Tier1!RollTooDeep
<1> QED
  BY <1>1, <1>2, <1>3, <1>4, <1>5, <1>6, <1>7, <1>8, <1>9, <1>10, <1>11, <1>12, <1>13,
     <1>14, <1>15, <1>16, <1>17, <1>18, <1>19, <1>20 DEF ComputeStep,
     Tier1!ComputeStep

LEMMA FrameMaps ==
  ASSUME Outside, FrameStep
  PROVE  Tier1!FrameStep
<1>1. ASSUME ToR PROVE Tier1!ToR
  BY <1>1, SameExecuting, SamePop, SameArg, SameReturns DEF Outside, ToR, store,
     caller, Tier1!ToR, Tier1!store, Tier1!caller
<1>2. ASSUME FromR PROVE Tier1!FromR
  BY <1>2, SameExecuting, SameSequences, SamePopPush DEF Outside, FromR, store,
     caller, Tier1!FromR, Tier1!store, Tier1!caller
<1>3. ASSUME RFetch PROVE Tier1!RFetch
  BY <1>3, SameCompute, SameSequences DEF RFetch, Tier1!RFetch
<1>4. ASSUME EmptyR PROVE Tier1!EmptyR
  BY <1>4, SameRefuse DEF EmptyR, Tier1!EmptyR
<1>5. ASSUME Do PROVE Tier1!Do
  BY <1>5, SameExecuting, SamePop, SameArg, SameReturns DEF Outside, Do, store,
     caller, Tier1!Do, Tier1!store, Tier1!caller
<1>6. ASSUME Loop PROVE Tier1!Loop
  BY <1>6, SameExecuting, SameLoop, SameEdge, SameReturns DEF Outside, Loop, store,
     caller, data, Tier1!Loop, Tier1!store, Tier1!caller, Tier1!data
<1>7. ASSUME PLoop PROVE Tier1!PLoop
  BY <1>7, SameExecuting, SamePop, SameArg, SameLoop, SameEdge, SameReturns DEF
     Outside, PLoop, store, caller, Tier1!PLoop, Tier1!store, Tier1!caller
<1>8. ASSUME NotInLoop PROVE Tier1!NotInLoop
  BY <1>8, SameRefuse DEF NotInLoop, Tier1!NotInLoop
<1>9. ASSUME I PROVE Tier1!I
  BY <1>9, SameCompute, SameSequences DEF I, Tier1!I
<1>10. ASSUME J PROVE Tier1!J
  BY <1>10, SameCompute DEF J, Tier1!J
<1> QED
  BY <1>1, <1>2, <1>3, <1>4, <1>5, <1>6, <1>7, <1>8, <1>9, <1>10 DEF FrameStep,
     Tier1!FrameStep

LEMMA MemoryMaps ==
  ASSUME Outside, MemoryStep
  PROVE  Tier1!MemoryStep
<1>1. ASSUME FetchCell PROVE Tier1!FetchCell
  BY <1>1, SameCompute, SameExecuting, SameArg, SamePlaces, SameCell DEF FetchCell,
     Tier1!FetchCell
<1>2. ASSUME StoreCell PROVE Tier1!StoreCell
  BY <1>2, SameExecuting, SamePop, SameArg, SamePlaces, SameWithCell, SameReturns DEF
     Outside, StoreCell, store, frames, caller, Tier1!StoreCell, Tier1!store,
     Tier1!frames, Tier1!caller
<1>3. ASSUME FetchC PROVE Tier1!FetchC
  BY <1>3, SameCompute, SameExecuting, SameArg, SameSets, SameWord DEF FetchC,
     Tier1!FetchC
<1>4. ASSUME StoreC PROVE Tier1!StoreC
  BY <1>4, SameExecuting, SamePop, SameArg, SameSets, SameReturns DEF Outside, StoreC,
     store, frames, caller, Tier1!StoreC, Tier1!store, Tier1!frames, Tier1!caller
<1>5. ASSUME OutOfMemory PROVE Tier1!OutOfMemory
  BY <1>5, SameRefuse, SameExecuting, SameArg, SameSets, SamePlaces DEF OutOfMemory,
     Tier1!OutOfMemory
<1>6. ASSUME AddressWraps PROVE Tier1!AddressWraps
  BY <1>6, SameExecuting, SamePop, SameArg, SamePlaces, SameReturns DEF Outside,
     AddressWraps, store, frames, caller, Tier1!AddressWraps, Tier1!store,
     Tier1!frames, Tier1!caller
<1>7. ASSUME Comma PROVE Tier1!Comma
  BY <1>7, SameExecuting, SamePop, SameArg, SamePlaces, SameWithCell, SameReturns DEF
     Outside, Comma, store, frames, caller, Tier1!Comma, Tier1!store, Tier1!frames,
     Tier1!caller
<1>8. ASSUME CommaNoRoom PROVE Tier1!CommaNoRoom
  BY <1>8, SameRefuse, SamePlaces DEF CommaNoRoom, Tier1!CommaNoRoom
<1>9. ASSUME Allot PROVE Tier1!Allot
  BY <1>9, SameExecuting, SamePop, SameArg, SamePlaces, SameReturns DEF Outside,
     Allot, store, frames, caller, Tier1!Allot, Tier1!store, Tier1!frames,
     Tier1!caller
<1>10. ASSUME CompileComma PROVE Tier1!CompileComma
  BY <1>10, SameExecuting, SamePop, SameArg, SameReturns DEF Outside, CompileComma,
     store, frames, caller, Tier1!CompileComma, Tier1!store, Tier1!frames,
     Tier1!caller
<1> QED
  BY <1>1, <1>2, <1>3, <1>4, <1>5, <1>6, <1>7, <1>8, <1>9, <1>10 DEF MemoryStep,
     Tier1!MemoryStep

LEMMA ControlMaps ==
  ASSUME Outside, ControlStep
  PROVE  Tier1!ControlStep
<1>1. ASSUME Jump PROVE Tier1!Jump
  BY <1>1, SameExecuting, SameGoTo DEF Outside, Jump, store, frames, caller, data,
     Tier1!Jump, Tier1!store, Tier1!frames, Tier1!caller, Tier1!data
<1>2. ASSUME JZ PROVE Tier1!JZ
  BY <1>2, SameExecuting, SamePop, SameArg, SameGoTo, SameReturns DEF Outside, JZ,
     store, frames, caller, Tier1!JZ, Tier1!store, Tier1!frames, Tier1!caller
<1>3. ASSUME Call PROVE Tier1!Call
  BY <1>3, SameExecuting, SamePlaces, SameReturns DEF Outside, Call, store, caller,
     data, Tier1!Call, Tier1!store, Tier1!caller, Tier1!data
<1>4. ASSUME CallNoWord PROVE Tier1!CallNoWord
  BY <1>4, SameExecuting, SamePlaces, SameReturns DEF Outside, CallNoWord, store,
     frames, caller, data, Tier1!CallNoWord, Tier1!store, Tier1!frames, Tier1!caller,
     Tier1!data
<1>5. ASSUME Ret PROVE Tier1!Ret
  BY <1>5, SameExecuting, SameSequences, SameReturns DEF Outside, Ret, store, caller,
     data, Tier1!Ret, Tier1!store, Tier1!caller, Tier1!data
<1>6. ASSUME Execute PROVE Tier1!Execute
  BY <1>6, SameExecuting, SamePop, SameArg, SamePlaces, SameEnter DEF Outside,
     Execute, store, frames, caller, Tier1!Execute, Tier1!store, Tier1!frames,
     Tier1!caller
<1>7. ASSUME ExecuteNoWord PROVE Tier1!ExecuteNoWord
  BY <1>7, SameRefuse, SameExecuting, SameArg, SamePlaces DEF ExecuteNoWord,
     Tier1!ExecuteNoWord
<1>8. ASSUME Catch PROVE Tier1!Catch
  BY <1>8, SameExecuting, SameReturns DEF Outside, Catch, store, caller, data,
     Tier1!Catch, Tier1!store, Tier1!caller, Tier1!data
<1>9. ASSUME Throw PROVE Tier1!Throw
  BY <1>9, SameExecuting, SamePop, SameArg, SameReturns DEF Outside, Throw, store,
     frames, caller, Tier1!Throw, Tier1!store, Tier1!frames, Tier1!caller
<1>10. ASSUME Yield PROVE Tier1!Yield
  BY <1>10, SameExecuting, SameReturns DEF Outside, Yield, store, frames, caller,
     data, Tier1!Yield, Tier1!store, Tier1!frames, Tier1!caller, Tier1!data
<1>11. ASSUME Stop PROVE Tier1!Stop
  BY <1>11, SameExecuting, SameReturns DEF Outside, Stop, store, frames, caller, data,
     Tier1!Stop, Tier1!store, Tier1!frames, Tier1!caller, Tier1!data
<1> QED
  BY <1>1, <1>2, <1>3, <1>4, <1>5, <1>6, <1>7, <1>8, <1>9, <1>10, <1>11 DEF
     ControlStep, Tier1!ControlStep

LEMMA ReturnMaps ==
  ASSUME Outside, ReturnStep
  PROVE  Tier1!ReturnStep
<1>1. ASSUME WordGoesOn PROVE Tier1!WordGoesOn
  BY <1>1, SameReturns, SameSequences DEF Outside, WordGoesOn, store, frames, caller,
     data, CallerOfHost, Tier1!WordGoesOn, Tier1!store, Tier1!frames, Tier1!caller,
     Tier1!data, Tier1!CallerOfHost
<1>2. ASSUME WordReturns PROVE Tier1!WordReturns
  BY <1>2, SameSets, SameReturns, SameSequences DEF Outside, WordReturns, store,
     frames, caller, data, CallerOfHost, Tier1!WordReturns, Tier1!store, Tier1!frames,
     Tier1!caller, Tier1!data, Tier1!CallerOfHost
<1>3. ASSUME ErrorEscapes PROVE Tier1!ErrorEscapes
  BY <1>3, SameReturns DEF Outside, ErrorEscapes, store, frames, caller, data,
     Tier1!ErrorEscapes, Tier1!store, Tier1!frames, Tier1!caller, Tier1!data
<1>4. ASSUME KeepRunning PROVE Tier1!KeepRunning
  BY <1>4, SameReturns DEF Outside, KeepRunning, store, frames, caller, data,
     Tier1!KeepRunning, Tier1!store, Tier1!frames, Tier1!caller, Tier1!data
<1>5. ASSUME RunEnds PROVE Tier1!RunEnds
  BY <1>5, SameReturns, SameSets DEF Outside, RunEnds, store, frames, caller, data,
     Tier1!RunEnds, Tier1!store, Tier1!frames, Tier1!caller, Tier1!data
<1>6. ASSUME UnwindThrow PROVE Tier1!UnwindThrow
  BY <1>6, SameReturns, SameUnwind DEF UnwindThrow, Tier1!UnwindThrow
<1>7. ASSUME UnwindError PROVE Tier1!UnwindError
  BY <1>7, SameReturns, SameUnwind DEF UnwindError, Tier1!UnwindError
<1>8. ASSUME NoHandler PROVE Tier1!NoHandler
  BY <1>8, SameReturns DEF Outside, NoHandler, store, frames, caller, data,
     Tier1!NoHandler, Tier1!store, Tier1!frames, Tier1!caller, Tier1!data
<1>9. ASSUME InterpretReturns PROVE Tier1!InterpretReturns
  BY <1>9 DEF Outside, InterpretReturns, store, frames, caller, data,
     Tier1!InterpretReturns, Tier1!store, Tier1!frames, Tier1!caller, Tier1!data
<1> QED
  BY <1>1, <1>2, <1>3, <1>4, <1>5, <1>6, <1>7, <1>8, <1>9 DEF ReturnStep,
     Tier1!ReturnStep

LEMMA VmStepMaps ==
  ASSUME Outside, VmStep
  PROVE  Tier1!VmStep
<1>1. ASSUME PastEnd PROVE Tier1!PastEnd
  BY <1>1, SameReturns, SamePlaces DEF Outside, PastEnd, store, frames, caller, data,
     Tier1!PastEnd, Tier1!store, Tier1!frames, Tier1!caller, Tier1!data
<1>2. ASSUME Decode PROVE Tier1!Decode
  BY <1>2, SamePlaces DEF Outside, Decode, store, frames, caller, data, Tier1!Decode,
     Tier1!store, Tier1!frames, Tier1!caller, Tier1!data
<1>3. ASSUME Underflow PROVE Tier1!Underflow
  BY <1>3, SameArity, SameReturns DEF Outside, Underflow, store, frames, caller,
     Tier1!Underflow, Tier1!store, Tier1!frames, Tier1!caller
<1>4. ASSUME Exhaust PROVE Tier1!Exhaust
  BY <1>4, SameExecuting, SameArg, SameReturns, SamePlaces DEF Outside, Exhaust,
     store, frames, caller, data, Tier1!Exhaust, Tier1!store, Tier1!frames,
     Tier1!caller, Tier1!data
<1>5. ASSUME ComputeStep PROVE Tier1!ComputeStep
  BY <1>5, ComputeMaps
<1>6. ASSUME FrameStep PROVE Tier1!FrameStep
  BY <1>6, FrameMaps
<1>7. ASSUME MemoryStep PROVE Tier1!MemoryStep
  BY <1>7, MemoryMaps
<1>8. ASSUME ControlStep PROVE Tier1!ControlStep
  BY <1>8, ControlMaps
<1>9. ASSUME ReturnStep PROVE Tier1!ReturnStep
  BY <1>9, ReturnMaps
<1> QED
  BY <1>1, <1>2, <1>3, <1>4, <1>5, <1>6, <1>7, <1>8, <1>9 DEF VmStep, Tier1!VmStep

LEMMA HostStepMaps ==
  ASSUME Outside, HostStep
  PROVE  Tier1!HostStep
<1>1. ASSUME InterpretNumber PROVE Tier1!InterpretNumber
  BY <1>1, SameSets DEF Outside, InterpretNumber, store, frames, caller, data,
     TextPush, Tier1!InterpretNumber, Tier1!store, Tier1!frames, Tier1!caller,
     Tier1!data, Tier1!TextPush
<1>2. ASSUME InterpretWord PROVE Tier1!InterpretWord
  BY <1>2, SameEnter, SameSets DEF Outside, InterpretWord, store, frames, caller,
     data, InterpretXt, Tier1!InterpretWord, Tier1!store, Tier1!frames, Tier1!caller,
     Tier1!data, Tier1!InterpretXt
<1>3. ASSUME StartRun PROVE Tier1!StartRun
  BY <1>3, SameSets DEF Outside, StartRun, store, frames, caller, data,
     Tier1!StartRun, Tier1!store, Tier1!frames, Tier1!caller, Tier1!data
<1> QED
  BY <1>1, <1>2, <1>3 DEF HostStep, Tier1!HostStep

LEMMA InitMaps == TInit => Tier1!Init
  BY SameSets DEF TInit, Init, Tier1!Init, entry_ip, entry_depth, InBlock

-----------------------------------------------------------------------------
(***************************************************************************)
(* The dispatch.  A block hands nothing over, and what the interpreter was *)
(* at its entry it is at its trap: that makes the rollback exact.          *)
(***************************************************************************)
TierInv ==
  /\ TypeOK /\ CanariesIntact
  /\ InBlock => saved = Marks

LEMMA ResizedToItself ==
  ASSUME NEW S, NEW s \in Seq(S), NEW zero
  PROVE  Resized(s, Len(s), zero) = s
  BY DEF Resized

LEMMA InterpretIsOutside == Interpret => Outside /\ ~InBlock'
  BY DEF Interpret, NextTier, Outside, InBlock, entry_ip, entry_depth

LEMMA HostIsOutside == Host => Outside /\ ~InBlock'
  BY DEF Host, HostStep, InterpretNumber, InterpretWord, InterpretXt, StartRun, NextTier,
         Outside, InBlock, entry_ip, entry_depth

\* What stutters in the interpreter.
Hidden == UNCHANGED <<vars, entry_ip, entry_depth>>

LEMMA HiddenStutters == Hidden => UNCHANGED Tier1!vars
  BY DEF Hidden, vars, store, data, frames, caller,
         Tier1!vars, Tier1!store, Tier1!data, Tier1!frames, Tier1!caller

LEMMA VmTypeStays ==
  TypeOK /\ CanariesIntact /\ UNCHANGED vars => TypeOK' /\ CanariesIntact'
  BY DEF TypeOK, CanariesIntact, StoreType, DataType, FramesType, ControlType,
         vars, store, data, frames, caller

LEMMA MarksStay == UNCHANGED vars => Marks' = Marks
  BY DEF Marks, vars, data, frames

LEMMA RollBackIsExact ==
  ASSUME TierInv, FallBack
  PROVE  UNCHANGED vars
<1>1. saved = Marks
  BY DEF TierInv, FallBack, InBlock, At
<1>2. /\ Resized(loop_stack, Len(loop_stack), 0) = loop_stack
      /\ Resized(r_stack, Len(r_stack), 0) = r_stack
      /\ Resized(c_stack, Len(c_stack), 0) = c_stack
      /\ Resized(exception_stack, Len(exception_stack), NoFrame) = exception_stack
  BY ResizedToItself DEF TierInv, TypeOK, FramesType
<1>3. UNCHANGED <<ip, d_depth, frames>>
  BY <1>1, <1>2 DEF FallBack, RollBack, Marks, frames
<1> QED
  BY <1>3 DEF FallBack, vars, store, data, caller

LEMMA DispatchIsHidden ==
  ASSUME TierInv, DispatchStep \/ ObserveBetween \/ TimePasses \/ UNCHANGED tvars
  PROVE  Hidden /\ TierInv'
<1>1. ASSUME NotDue PROVE Hidden /\ TierInv'
  BY <1>1, VmTypeStays, MarksStay DEF NotDue, At, Hidden, TierInv, InBlock, entry_ip, entry_depth,
     vars, data
<1>2. ASSUME Optimize PROVE Hidden /\ TierInv'
  BY <1>2, VmTypeStays DEF Optimize, At, Hidden, TierInv, InBlock, entry_ip, entry_depth, vars, data
<1>3. ASSUME Look PROVE Hidden /\ TierInv'
  <2>1. UNCHANGED vars /\ Marks' = Marks /\ ~InBlock
    BY <1>3, MarksStay DEF Look, At, InBlock
  <2>2. InBlock' => saved' = Marks
    BY <1>3 DEF Look, InBlock
  <2>3. UNCHANGED <<entry_ip, entry_depth>>
    BY <2>1, <2>2 DEF entry_ip, entry_depth, Marks, vars, data
  <2> QED
    BY <2>1, <2>2, <2>3, VmTypeStays DEF Hidden, TierInv
<1>4. ASSUME RunBlock PROVE Hidden /\ TierInv'
  <2>1. UNCHANGED <<vars, saved>> /\ InBlock /\ InBlock' /\ Marks' = Marks
    BY <1>4, MarksStay DEF RunBlock, At, InBlock, vars
  <2> QED
    BY <2>1, VmTypeStays DEF Hidden, TierInv, entry_ip, entry_depth
<1>5. ASSUME FallBack PROVE Hidden /\ TierInv'
  <2>1. UNCHANGED vars /\ saved = Marks /\ InBlock /\ ~InBlock'
    BY <1>5, RollBackIsExact DEF FallBack, At, InBlock, TierInv
  <2>2. UNCHANGED <<entry_ip, entry_depth>>
    BY <2>1 DEF entry_ip, entry_depth, Marks, vars, data
  <2> QED
    BY <2>1, <2>2, VmTypeStays DEF Hidden, TierInv
<1>6. ASSUME UNCHANGED <<vars, tier, saved>> PROVE Hidden /\ TierInv'
  BY <1>6, VmTypeStays, MarksStay DEF Hidden, TierInv, InBlock, entry_ip, entry_depth, vars, data
<1> QED
  BY <1>1, <1>2, <1>3, <1>4, <1>5, <1>6 DEF DispatchStep, ObserveBetween, TimePasses, tvars

LEMMA TierStep ==
  ASSUME TierInv, [TNext]_tvars
  PROVE  TierInv' /\ [Tier1!Next]_(Tier1!vars)
<1>1. ASSUME Interpret PROVE TierInv' /\ Tier1!Next
  <2>1. VmStep /\ Outside /\ ~InBlock'
    BY <1>1, InterpretIsOutside DEF Interpret
  <2>2. TypeOK' /\ CanariesIntact'
    BY <2>1, NextType DEF Next, TierInv
  <2> QED
    BY <2>1, <2>2, VmStepMaps DEF TierInv, Tier1!Next
<1>2. ASSUME Host PROVE TierInv' /\ Tier1!Next
  <2>1. HostStep /\ Outside /\ ~InBlock'
    BY <1>2, HostIsOutside DEF Host
  <2>2. TypeOK' /\ CanariesIntact'
    BY <2>1, NextType DEF Next, TierInv
  <2> QED
    BY <2>1, <2>2, HostStepMaps DEF TierInv, Tier1!Next
<1> QED
  BY <1>1, <1>2, DispatchIsHidden, HiddenStutters DEF TNext

-----------------------------------------------------------------------------
(***************************************************************************)
(* Theorems.                                                               *)
(***************************************************************************)
LEMMA TierStart == TInit => TierInv
  BY InitType DEF TInit, TierInv, InBlock, Init

\* The refinement: whatever the optimizer learned and the dispatch tried, the
\* program takes the steps of the interpreter alone, and no others.
THEOREM TiersImplementVm == TSpec => BehavesAsTier1
  BY InitMaps, TierStart, TierStep, PTL DEF TSpec, BehavesAsTier1, Tier1!Spec

LEMMA TierStepIsVmStep ==
  ASSUME TierInv, [TNext]_tvars
  PROVE  [Next]_vars
  BY DispatchIsHidden DEF TNext, Interpret, Host, Next, Hidden

\* What is proved of the interpreter holds with both tiers: with blocks that
\* are compiled, entered and rolled back at any step, no stack passes its
\* limit or its canaries, and every frame still follows its Call.
THEOREM TiersKeepInvariants ==
  TSpec => [](TypeOK /\ CanariesIntact /\ FramesFollowCalls /\ HostNesting /\ LoopPaired)
<1>1. TInit => Init
  BY DEF TInit
<1>2. TSpec => Spec
  BY <1>1, TierStart, TierStep, TierStepIsVmStep, PTL DEF TSpec, Spec
<1> QED
  BY <1>2, TypeCorrect, CanariesHold, FramesHold, HostsNest, LoopsPaired, PTL

-----------------------------------------------------------------------------
(***************************************************************************)
(* What the optimizer learns from the code that is run.                    *)
(***************************************************************************)
Building == INSTANCE FoldProofs WITH op <- Insert

LearnInv ==
  /\ TierInv
  /\ OInv(NoLimit)
  /\ runtime_trace \in Seq(TraceEvent)

\* What step_tier1 traces is what Optimizer reads.
LEMMA EventType ==
  ASSUME TypeOK
  PROVE  Event \in Seq(TraceEvent)
<1>1. code \in Seq(Instruction) /\ instr \in Instruction
  BY DEF TypeOK, StoreType, ControlType
<1>2. Instruction \subseteq Executed
  <2>1. PrimitiveOps \cup CodeOps \subseteq Contracted \cup Opaque
    BY DEF PrimitiveOps, ArithmeticOps, DivisionOps, ShuffleOps, UnaryOps, BitOps, ShiftOps,
           ExtremeOps, CompareOps, ConstantOps, OutputOps, MemoryOps, CodeOps, Contracted, Opaque
  <2> QED
    BY <2>1 DEF Instruction, Executed
<1>3. ASSUME InCode(ip)
      PROVE  [kind |-> "Op", ip |-> ip, ins |-> code[ip + 1]] \in TraceEvent
  <2>1. ip \in Nat /\ ip + 1 \in 1 .. Len(code)
    BY <1>1, <1>3 DEF InCode
  <2>2. code[ip + 1] \in Executed
    BY <1>1, <1>2, <2>1
  <2> QED
    BY <2>1, <2>2 DEF TraceEvent
<1>4. [kind |-> "EnterWord", word |-> instr.data] \in TraceEvent
  BY <1>1 DEF Instruction, TraceEvent
<1>5. [kind |-> "ExitWord"] \in TraceEvent
  BY DEF TraceEvent
<1> QED
  BY <1>3, <1>4, <1>5 DEF Event

\* The optimizer's state from its parts.
LEMMA SoundParts ==
  OInv(NoLimit) <=>
    /\ DOMAIN patterns \subseteq Context /\ patterns \in [DOMAIN patterns -> Stats]
    /\ super_instructions \subseteq Context
    /\ pending_jit \in Seq([ip : Nat, ctx : Context]) /\ Len(pending_jit) <= MAX_PENDING_JIT
    /\ \A k \in DOMAIN pending_jit : pending_jit[k].ctx \in super_instructions
    /\ decay_counter \in 0 .. DecayEvents /\ eval_count \in Nat
    /\ next_opt_threshold \in Nat /\ is_frozen \in BOOLEAN
    /\ disk.kind \in {"none", "torn", "saved"} /\ Sound(disk.state, NoLimit)
  BY DEF OInv, Sound, StateOK, State, Within, Earned, NoLimit

\* A step of the optimizer: patterns of blocks that are out of use keep
\* their failures.
FailuresStay ==
  \A ctx \in DOMAIN patterns :
    patterns[ctx].failures > 0 => ctx \in DOMAIN patterns' /\ patterns'[ctx].failures > 0

LEMMA LearningStays ==
  ASSUME OInv(NoLimit), UNCHANGED ovars
  PROVE  OInv(NoLimit)' /\ FailuresStay
<1>1. OInv(NoLimit)'
  BY NoLimitType, QuietKeeps DEF QuietStep
<1> QED
  BY <1>1 DEF FailuresStay, ovars, learned

LEMMA OptimizeLearns ==
  ASSUME LearnInv, Optimize
  PROVE  OInv(NoLimit)' /\ FailuresStay
<1> DEFINE now == Learned(runtime_trace)
           mind == now.mind
           more == Limit({}, NoLimit, runtime_trace, Len(runtime_trace))
<1>1. OInv(NoLimit) /\ runtime_trace \in Seq(TraceEvent)
  BY DEF LearnInv
<1>2. decay_counter \in 0 .. DecayEvents /\ eval_count \in Nat /\ next_opt_threshold \in Nat
      /\ is_frozen \in BOOLEAN /\ disk.kind \in {"none", "torn", "saved"}
      /\ Sound(disk.state, NoLimit)
  BY <1>1, SoundParts
<1>3. Mind \in Grown(Mind, NoLimit)
  BY <1>1, NoLimitType, SoundIsGrown DEF OInv
<1>4. mind \in Grown(Mind, more) /\ now.count \in 0 .. DecayEvents
  BY <1>1, <1>2, <1>3, NoLimitType, LearnedKeeps
<1>5. /\ patterns' = mind.patterns /\ super_instructions' = mind.supers
      /\ pending_jit' = <<>> /\ decay_counter' = now.count
      /\ is_frozen' = is_frozen /\ disk' = disk /\ CountEval
  BY DEF Optimize
<1> HIDE DEF now, more
<1>6. mind.patterns \in Maps /\ mind.supers \in SUBSET Context /\ StrikesKept(Mind, mind.patterns)
  BY <1>4 DEF Grown, Minds
<1>7. DOMAIN mind.patterns \subseteq Context /\ mind.patterns \in [DOMAIN mind.patterns -> Stats]
  BY <1>6, MapsForm
<1> HIDE DEF mind
<1>8. Len(<<>>) = 0 /\ DOMAIN <<>> = {} /\ <<>> \in Seq([ip : Nat, ctx : Context])
      /\ MAX_PENDING_JIT \in Nat
  BY LimitAssumption
<1>9. eval_count' \in Nat /\ next_opt_threshold' \in Nat
  BY <1>2, <1>5, CountType
<1>10. OInv(NoLimit)'
  BY <1>2, <1>4, <1>5, <1>6, <1>7, <1>8, <1>9 DEF OInv, Sound, StateOK, State, Within, Earned, NoLimit
<1>11. FailuresStay
  BY <1>5, <1>6 DEF FailuresStay, StrikesKept, Mind
<1> QED
  BY <1>10, <1>11

LEMMA BetweenLearns ==
  ASSUME LearnInv, ObserveBetween
  PROVE  OInv(NoLimit)' /\ FailuresStay
<1>1. PICK trace \in Seq(TraceEvent) : trace = runtime_trace
  BY DEF LearnInv
<1> DEFINE more == Limit({}, NoLimit, trace, Len(trace))
<1>2. OInv(NoLimit) /\ Len(trace) \in Nat /\ Observe(trace)
      /\ UNCHANGED <<eval_count, next_opt_threshold, is_frozen, disk>>
  BY <1>1 DEF LearnInv, ObserveBetween
<1>3. OInv(more)' /\ StrikesKept(Mind, patterns')
  BY <1>2, NoLimitType, ObserveKeeps
<1>4. more = NoLimit
  <2>1. more \in Limits({})
    BY <1>2, NoLimitType, LimitType
  <2> HIDE DEF more
  <2> QED
    BY <2>1, NoLimitType
<1>5. FailuresStay
  <2>1. \A ctx \in DOMAIN patterns :
          patterns[ctx].failures > 0 =>
            ctx \in DOMAIN patterns' /\ patterns'[ctx].failures = patterns[ctx].failures
    BY <1>3 DEF StrikesKept, Mind
  <2> QED
    BY <2>1 DEF FailuresStay
<1> HIDE DEF more
<1> QED
  BY <1>3, <1>4, <1>5

\* Compiling builds new blocks and poisons none.
LEMMA BuiltIsFresh ==
  ASSUME NEW queue \in Seq([ip : Nat, ctx : Context])
  PROVE  /\ DOMAIN blocks \subseteq DOMAIN Compiled(queue)
         /\ \A a \in DOMAIN blocks :
              Compiled(queue)[a].is_poisoned => Compiled(queue)[a] = blocks[a]
<1>1. Compiled(queue) = Building!Fold(blocks, queue)
  BY DEF Compiled, FoldLeft, MapThenFoldSet, Max, Building!Fold, Building!FoldLeft,
         Building!MapThenFoldSet, Building!Max
<1>2. PICK r : /\ r[0] = blocks
               /\ \A n \in 1 .. Len(queue) : r[n] = Insert(r[n - 1], queue[n])
               /\ Compiled(queue) = r[Len(queue)]
  BY <1>1, Building!FoldRuns
<1> DEFINE Good == { n \in 0 .. Len(queue) :
                       /\ DOMAIN blocks \subseteq DOMAIN r[n]
                       /\ \A a \in DOMAIN blocks : r[n][a].is_poisoned => r[n][a] = blocks[a] }
<1>3. Len(queue) \in Nat
  OBVIOUS
<1>4. 0 \in Good
  BY <1>2, <1>3
<1>5. ASSUME NEW n \in 0 .. (Len(queue) - 1), n \in Good PROVE n + 1 \in Good
  <2>1. n + 1 \in 1 .. Len(queue) /\ (n + 1) - 1 = n /\ n + 1 \in 0 .. Len(queue)
    BY <1>3
  <2> DEFINE item == queue[n + 1]
             here_ == r[n]
             next == r[n + 1]
  <2>2. next = Insert(here_, item)
    BY <1>2, <2>1
  <2>3. /\ DOMAIN blocks \subseteq DOMAIN here_
        /\ \A a \in DOMAIN blocks : here_[a].is_poisoned => here_[a] = blocks[a]
    BY <1>5
  <2> HIDE DEF item, here_, next
  <2>4. next = here_ \/ next = With(here_, item.ip, NewBlock(item.ctx))
    BY <2>2 DEF Insert
  <2>5. /\ DOMAIN blocks \subseteq DOMAIN next
        /\ \A a \in DOMAIN blocks : next[a].is_poisoned => next[a] = blocks[a]
    BY <2>3, <2>4 DEF With, NewBlock
  <2> QED
    BY <2>1, <2>5 DEF next
<1>6. Len(queue) \in Good
  <2>1. \A n \in 0 .. (Len(queue) - 1) : n \in Good => n + 1 \in Good
    BY <1>5
  <2> HIDE DEF Good
  <2>2. 0 .. Len(queue) \subseteq Good
    BY <1>3, <1>4, <2>1, Building!UpTo
  <2> QED
    BY <1>3, <2>2
<1> QED
  BY <1>2, <1>6

\* What a step does to a block that is out of use after it.
Counted ==
  \A a \in DOMAIN blocks :
    LET ctx == blocks[a].ctx
    IN  (/\ blocks'[a].is_poisoned /\ ctx \in DOMAIN patterns
         /\ blocks[a].is_poisoned => patterns[ctx].failures > 0)
          => ctx \in DOMAIN patterns' /\ patterns'[ctx].failures > 0

LEMMA NoneIsPoisoned ==
  ASSUME FailuresStay,
         \A a \in DOMAIN blocks : blocks'[a].is_poisoned => blocks[a].is_poisoned
  PROVE  Counted
  BY DEF FailuresStay, Counted

LEMMA PoisonCounts ==
  ASSUME OInv(NoLimit), Poison
  PROVE  OInv(NoLimit)' /\ Counted
<1> DEFINE struck == blocks[saved.ip].ctx
<1>1. Penalize(struck) /\ blocks' = [blocks EXCEPT ![saved.ip] = OutOfUse(@.ctx, FALSE)]
  BY DEF Poison
<1>2. OInv(NoLimit)'
  BY <1>1, NoLimitType, PenalizeKeeps
<1>3. patterns \in [DOMAIN patterns -> Stats]
  BY SoundParts
<1>4. \A ctx \in DOMAIN patterns : patterns[ctx].failures \in Nat
  BY <1>3 DEF Stats
<1>5. ASSUME NEW ctx \in DOMAIN patterns
      PROVE  /\ ctx \in DOMAIN patterns' /\ patterns'[ctx].failures >= patterns[ctx].failures
             /\ ctx = struck => patterns'[ctx].failures > 0
  <2>1. CASE struck \notin DOMAIN patterns
    <3>1. patterns' = patterns
      BY <1>1, <2>1 DEF Penalize
    <3> QED
      BY <1>4, <1>5, <2>1, <3>1
  <2>2. CASE struck \in DOMAIN patterns
    <3>1. patterns' = [patterns EXCEPT ![struck] = [failures |-> @.failures + 1,
                                                    score |-> @.score - PenaltyScore]]
      BY <1>1, <2>2 DEF Penalize
    <3> HIDE DEF struck
    <3>2. /\ DOMAIN patterns' = DOMAIN patterns
          /\ patterns'[struck].failures = patterns[struck].failures + 1
          /\ \A c \in DOMAIN patterns : c # struck => patterns'[c] = patterns[c]
      BY <1>3, <2>2, <3>1
    <3> QED
      BY <1>4, <1>5, <2>2, <3>2
  <2> QED
    BY <2>1, <2>2
<1>6. ASSUME NEW a \in DOMAIN blocks, blocks'[a].is_poisoned, blocks[a].ctx \in DOMAIN patterns,
             blocks[a].is_poisoned => patterns[blocks[a].ctx].failures > 0
      PROVE  /\ blocks[a].ctx \in DOMAIN patterns'
             /\ patterns'[blocks[a].ctx].failures > 0
  <2>1. CASE a = saved.ip
    BY <1>5, <1>6, <2>1
  <2>2. CASE a # saved.ip
    <3>1. blocks'[a] = blocks[a]
      BY <1>1, <1>6, <2>2
    <3>2. patterns[blocks[a].ctx].failures > 0
      BY <1>6, <3>1
    <3>3. /\ blocks[a].ctx \in DOMAIN patterns'
          /\ patterns'[blocks[a].ctx].failures >= patterns[blocks[a].ctx].failures
      BY <1>5, <1>6
    <3>4. patterns[blocks[a].ctx].failures \in Nat /\ OInv(NoLimit)' 
      BY <1>2, <1>4, <1>6
    <3>5. patterns'[blocks[a].ctx].failures \in Nat
      <4>1. patterns' \in [DOMAIN patterns' -> Stats]
        BY <1>2 DEF OInv, Sound, StateOK, State
      <4> QED
        BY <3>3, <4>1 DEF Stats
    <3> QED
      BY <3>2, <3>3, <3>4, <3>5
  <2> QED
    BY <2>1, <2>2
<1>7. Counted
  BY <1>6 DEF Counted
<1> QED
  BY <1>2, <1>7

LEMMA LookLearns ==
  ASSUME LearnInv, Look
  PROVE  OInv(NoLimit)' /\ Counted
<1>1. /\ blocks' = Recovered(Compiled(pending_jit)) /\ pending_jit' = <<>>
      /\ UNCHANGED <<patterns, super_instructions, decay_counter, eval_count,
                     next_opt_threshold, is_frozen, disk>>
  BY DEF Look, pace
<1>2. OInv(NoLimit) /\ pending_jit \in Seq([ip : Nat, ctx : Context])
  BY SoundParts DEF LearnInv
<1>3. OInv(NoLimit)'
  <2>1. Len(<<>>) = 0 /\ DOMAIN <<>> = {} /\ <<>> \in Seq([ip : Nat, ctx : Context])
        /\ MAX_PENDING_JIT \in Nat
    BY LimitAssumption
  <2> QED
    BY <1>1, <1>2, <2>1 DEF OInv, Sound, StateOK, State
<1> DEFINE built == Compiled(pending_jit)
<1>4. /\ DOMAIN blocks \subseteq DOMAIN built
      /\ \A a \in DOMAIN blocks : built[a].is_poisoned => built[a] = blocks[a]
  BY <1>2, BuiltIsFresh
<1> HIDE DEF built
<1>5. \A a \in DOMAIN blocks : blocks'[a].is_poisoned => blocks[a].is_poisoned
  <2>1. blocks' = [a \in DOMAIN built |->
                     IF a = ip /\ built[a].rested THEN NewBlock(built[a].ctx) ELSE built[a]]
    BY <1>1 DEF Recovered, built
  <2> QED
    BY <1>4, <2>1 DEF NewBlock
<1>6. FailuresStay
  BY <1>1 DEF FailuresStay
<1> QED
  BY <1>3, <1>5, <1>6, NoneIsPoisoned

LEMMA OptimizeCounts ==
  ASSUME LearnInv, Optimize
  PROVE  Counted
<1>1. blocks' = Compiled(Learned(runtime_trace).mind.pending)
  BY DEF Optimize
<1> DEFINE queue == Learned(runtime_trace).mind.pending
<1>2. queue \in Seq([ip : Nat, ctx : Context])
  <2>1. Mind \in Grown(Mind, NoLimit) /\ decay_counter \in 0 .. DecayEvents
    BY NoLimitType, SoundIsGrown, SoundParts DEF LearnInv, OInv
  <2>2. Learned(runtime_trace).mind
          \in Grown(Mind, Limit({}, NoLimit, runtime_trace, Len(runtime_trace)))
    BY <2>1, NoLimitType, LearnedKeeps DEF LearnInv
  <2> QED
    BY <2>2 DEF Grown, Minds, QueueItem
<1> HIDE DEF queue
<1>3. \A a \in DOMAIN blocks : blocks'[a].is_poisoned => blocks[a].is_poisoned
  BY <1>1, <1>2, BuiltIsFresh DEF queue
<1> QED
  BY <1>3, OptimizeLearns, NoneIsPoisoned

LEMMA LearnStart == TInit => LearnInv
<1> SUFFICES ASSUME TInit PROVE LearnInv
  OBVIOUS
<1>1. TierInv
  BY TierStart
<1>2. OInv(NoLimit)
  BY NoLimitType, StartIsSound DEF TInit
<1>3. <<>> \in Seq(TraceEvent)
  OBVIOUS
<1> QED
  BY <1>1, <1>2, <1>3 DEF TInit, LearnInv

LEMMA LearnTurn ==
  ASSUME LearnInv, [TNext]_tvars
  PROVE  LearnInv' /\ Counted
<1>1. OInv(NoLimit) /\ runtime_trace \in Seq(TraceEvent)
  BY DEF LearnInv
<1>2. TierInv'
  BY TierStep DEF LearnInv
<1>3. CASE Interpret
  <2>1. runtime_trace' \in Seq(TraceEvent)
    <3>1. Event \in Seq(TraceEvent)
      BY EventType DEF LearnInv, TierInv
    <3>2. runtime_trace' = runtime_trace \o Event
      BY <1>3 DEF Interpret
    <3> HIDE DEF Event
    <3> QED
      BY <1>1, <3>1, <3>2
  <2>2. UNCHANGED ovars /\ blocks' = blocks
    BY <1>3 DEF Interpret
  <2> QED
    BY <1>1, <1>2, <2>1, <2>2, LearningStays, NoneIsPoisoned DEF LearnInv
<1>4. CASE Host \/ NotDue \/ RunBlock \/ UNCHANGED tvars
  <2>1. runtime_trace' = runtime_trace /\ blocks' = blocks
    BY <1>4 DEF Host, NotDue, RunBlock, tvars
  <2>2. OInv(NoLimit)' /\ FailuresStay
    <3>1. CASE NotDue
      <4>1. CountEval
            /\ UNCHANGED <<patterns, super_instructions, pending_jit, decay_counter, is_frozen, disk>>
        BY <3>1 DEF NotDue, learned
      <4>2. eval_count' \in Nat /\ next_opt_threshold' \in Nat
        BY <1>1, <4>1, SoundParts, CountType
      <4> QED
        BY <1>1, <4>1, <4>2 DEF OInv, Sound, StateOK, State, FailuresStay
    <3>2. CASE UNCHANGED ovars
      BY <1>1, <3>2, LearningStays
    <3> QED
      BY <1>4, <3>1, <3>2 DEF Host, RunBlock, tvars
  <2> QED
    BY <1>1, <1>2, <2>1, <2>2, NoneIsPoisoned DEF LearnInv
<1>5. CASE Optimize
  <2>1. runtime_trace' \in Seq(TraceEvent)
    BY <1>5 DEF Optimize
  <2> QED
    BY <1>2, <1>5, <2>1, OptimizeLearns, OptimizeCounts DEF LearnInv
<1>6. CASE Look
  BY <1>1, <1>2, <1>6, LookLearns DEF LearnInv, Look
<1>7. CASE FallBack
  <2>1. runtime_trace' = runtime_trace
    BY <1>7 DEF FallBack
  <2>2. CASE Poison
    BY <1>1, <1>2, <2>1, <2>2, PoisonCounts DEF LearnInv
  <2>3. CASE UNCHANGED <<blocks, ovars>>
    BY <1>1, <1>2, <2>1, <2>3, LearningStays, NoneIsPoisoned DEF LearnInv
  <2> QED
    BY <1>7, <2>2, <2>3 DEF FallBack
<1>8. CASE ObserveBetween
  <2>1. runtime_trace' \in Seq(TraceEvent) /\ blocks' = blocks
    BY <1>1, <1>8 DEF ObserveBetween
  <2> QED
    BY <1>2, <1>8, <2>1, BetweenLearns, NoneIsPoisoned DEF LearnInv
<1>9. CASE TimePasses
  <2>1. runtime_trace' = runtime_trace /\ UNCHANGED ovars
    BY <1>9 DEF TimePasses
  <2>2. \A a \in DOMAIN blocks : blocks'[a].is_poisoned => blocks[a].is_poisoned
    BY <1>9 DEF TimePasses
  <2> QED
    BY <1>1, <1>2, <2>1, <2>2, LearningStays, NoneIsPoisoned DEF LearnInv
<1> QED
  BY <1>3, <1>4, <1>5, <1>6, <1>7, <1>8, <1>9 DEF TNext, DispatchStep

LEMMA LearnInvHolds == TSpec => []LearnInv
  BY LearnStart, LearnTurn, PTL DEF TSpec

(***************************************************************************)
(* The optimizer that learns from run_loop's own traces keeps its types,   *)
(* the bound of pending_jit and what it promoted, however blocks trap.     *)
(***************************************************************************)
THEOREM TiersLearnSoundly == TSpec => [](LearnTypeOK /\ QueuedIsPromoted)
<1>1. LearnInv => LearnTypeOK /\ QueuedIsPromoted
  BY DEF LearnInv, OInv, Sound, State, LearnTypeOK, QueuedIsPromoted
<1> QED
  BY <1>1, LearnInvHolds, PTL

(***************************************************************************)
(* step_jit's poison_block and penalize_pattern go together: a block is    *)
(* never out of use while the optimizer knows its pattern and no failure   *)
(* of it, unless it was poisoned when the pattern was forgotten.           *)
(***************************************************************************)
THEOREM PoisonRemembered == TSpec => PoisonIsRemembered
<1>1. LearnInv /\ [TNext]_tvars =>
        [\A a \in DOMAIN blocks :
           LET ctx == blocks[a].ctx
           IN  (/\ blocks'[a].is_poisoned /\ ctx \in DOMAIN patterns
                /\ blocks[a].is_poisoned => patterns[ctx].failures > 0)
                 => ctx \in DOMAIN patterns' /\ patterns'[ctx].failures > 0]_tvars
  BY LearnTurn DEF Counted
<1> QED
  BY <1>1, LearnInvHolds, PTL DEF TSpec, PoisonIsRemembered

-----------------------------------------------------------------------------
(***************************************************************************)
(* Patterns with too many failures.                                        *)
(***************************************************************************)
\* A block after the compilation of a queue is an old one or one of the queue.
LEMMA BuiltIsQueued ==
  ASSUME NEW queue \in Seq([ip : Nat, ctx : Context])
  PROVE  \A a \in DOMAIN Compiled(queue) :
           \/ a \in DOMAIN blocks /\ Compiled(queue)[a] = blocks[a]
           \/ \E k \in DOMAIN queue : Compiled(queue)[a] = NewBlock(queue[k].ctx)
<1> DEFINE N == Len(queue)
           OldOrQueued(built) ==
             \A a \in DOMAIN built :
               \/ a \in DOMAIN blocks /\ built[a] = blocks[a]
               \/ \E k \in DOMAIN queue : built[a] = NewBlock(queue[k].ctx)
<1>1. Compiled(queue) = Building!Fold(blocks, queue)
  BY DEF Compiled, FoldLeft, MapThenFoldSet, Max, Building!Fold, Building!FoldLeft,
         Building!MapThenFoldSet, Building!Max
<1>2. PICK r : /\ r[0] = blocks
               /\ \A n \in 1 .. N : r[n] = Insert(r[n - 1], queue[n])
               /\ Compiled(queue) = r[N]
  BY <1>1, Building!FoldRuns
<1> DEFINE Good == { n \in 0 .. N : OldOrQueued(r[n]) }
<1>3. N \in Nat /\ DOMAIN queue = 1 .. N
  OBVIOUS
<1>4. 0 \in Good
  BY <1>2, <1>3
<1>5. ASSUME NEW n \in 0 .. N - 1, n \in Good PROVE n + 1 \in Good
  <2>1. n + 1 \in DOMAIN queue /\ n + 1 \in 1 .. N /\ (n + 1) - 1 = n /\ n + 1 \in 0 .. N
    BY <1>3
  <2> DEFINE here_ == r[n]
             next == r[n + 1]
             item == queue[n + 1]
  <2>2. next = Insert(here_, item) /\ OldOrQueued(here_)
    BY <1>2, <1>5, <2>1
  <2> HIDE DEF here_, next
  <2>3. next = here_ \/ next = With(here_, item.ip, NewBlock(item.ctx))
    BY <2>2 DEF Insert
  <2>4. ASSUME NEW a \in DOMAIN next
        PROVE  next[a] = NewBlock(item.ctx) \/ (a \in DOMAIN here_ /\ next[a] = here_[a])
    BY <2>3, <2>4 DEF With
  <2>5. OldOrQueued(next)
    BY <2>1, <2>2, <2>4
  <2> QED
    BY <2>1, <2>5 DEF next
<1>6. N \in Good
  <2>1. \A n \in 0 .. N - 1 : n \in Good => n + 1 \in Good
    BY <1>5
  <2> HIDE DEF Good, N
  <2>2. 0 .. N \subseteq Good
    BY <1>3, <1>4, <2>1, Building!UpTo
  <2> QED
    BY <1>3, <2>2
<1> QED
  BY <1>2, <1>6

\* While a block runs nothing waits for the JIT, so that what traps is not
\* queued a second time.
StrikeInv == LearnInv /\ Unstruck(Mind) /\ (InBlock => pending_jit = <<>>)

TooManyFailures(known, ctx) == ctx \in DOMAIN known /\ known[ctx].failures > MaxStrikes

\* What a step does to the blocks of patterns with too many failures.
LeftAlone ==
  \A a \in DOMAIN blocks' :
    TooManyFailures(patterns', blocks'[a].ctx) =>
      /\ a \in DOMAIN blocks /\ blocks[a].ctx = blocks'[a].ctx
      /\ blocks[a].is_poisoned /\ ~blocks[a].rested => blocks'[a].is_poisoned

\* Compiling what waits builds none of them.
LEMMA BuiltIsUnstruck ==
  ASSUME NEW mind \in Minds, Unstruck(mind)
  PROVE  \A a \in DOMAIN Compiled(mind.pending) :
           TooManyFailures(mind.patterns, Compiled(mind.pending)[a].ctx) =>
             a \in DOMAIN blocks /\ Compiled(mind.pending)[a] = blocks[a]
<1> DEFINE queue == mind.pending
           built == Compiled(queue)
<1>1. queue \in Seq([ip : Nat, ctx : Context])
  BY DEF Minds, QueueItem
<1>2. \A a \in DOMAIN built :
        \/ a \in DOMAIN blocks /\ built[a] = blocks[a]
        \/ \E k \in DOMAIN queue : built[a] = NewBlock(queue[k].ctx)
  BY <1>1, BuiltIsQueued
<1>3. ASSUME NEW k \in DOMAIN queue PROVE ~TooManyFailures(mind.patterns, queue[k].ctx)
  <2> SUFFICES ASSUME queue[k].ctx \in DOMAIN mind.patterns
               PROVE  ~(mind.patterns[queue[k].ctx].failures > MaxStrikes)
    BY DEF TooManyFailures
  <2>1. PICK f : f = mind.patterns[queue[k].ctx].failures
    OBVIOUS
  <2>2. f \in Nat /\ MaxStrikes \in Nat
    <3>1. PICK S \in SUBSET Context : mind.patterns \in [S -> Stats]
      BY DEF Minds, Maps
    <3> QED
      BY <2>1, <3>1, LimitAssumption DEF Stats
  <2>3. f <= MaxStrikes
    BY <1>3, <2>1 DEF Unstruck
  <2> QED
    BY <2>1, <2>2, <2>3
<1> HIDE DEF built, queue
<1>4. \A k : NewBlock(queue[k].ctx).ctx = queue[k].ctx
  BY DEF NewBlock
<1>5. \A a \in DOMAIN built :
        TooManyFailures(mind.patterns, built[a].ctx) => a \in DOMAIN blocks /\ built[a] = blocks[a]
  BY <1>2, <1>3, <1>4
<1> QED
  BY <1>5 DEF built, queue

LEMMA StrikeStart == TInit => StrikeInv
<1> SUFFICES ASSUME TInit PROVE StrikeInv
  OBVIOUS
<1>1. LearnInv /\ pending_jit = <<>>
  BY LearnStart DEF TInit, OInit
<1> QED
  BY <1>1 DEF StrikeInv, Unstruck, Mind

LEMMA StrikeTurn ==
  ASSUME StrikeInv, [TNext]_tvars
  PROVE  StrikeInv' /\ LeftAlone
<1>1. LearnInv /\ LearnInv' /\ Unstruck(Mind)
  BY LearnTurn DEF StrikeInv
<1>2. Mind \in Grown(Mind, NoLimit) /\ Mind \in Minds
  BY <1>1, NoLimitType, SoundIsGrown DEF LearnInv, OInv, Grown
<1> DEFINE mind == Learned(runtime_trace).mind
           more == Limit({}, NoLimit, runtime_trace, Len(runtime_trace))
<1>3. mind \in Minds /\ Unstruck(mind)
  <2>1. decay_counter \in 0 .. DecayEvents
    BY <1>1, SoundParts DEF LearnInv
  <2>2. mind \in Grown(Mind, more) /\ more \in Limits({})
    BY <1>1, <1>2, <2>1, NoLimitType, LearnedKeeps, LimitType DEF LearnInv
  <2> HIDE DEF mind, more
  <2> QED
    BY <1>1, <1>2, <2>2, GrownUnstruck DEF Grown
<1> HIDE DEF mind
<1>4. ASSUME UNCHANGED <<blocks, patterns>> PROVE LeftAlone
  BY <1>4 DEF LeftAlone
<1>5. ASSUME UNCHANGED <<patterns, pending_jit>> PROVE Unstruck(Mind)'
  BY <1>1, <1>5 DEF Unstruck, Mind
<1>6. ASSUME pending_jit' = <<>> PROVE Unstruck(Mind)'
  BY <1>6 DEF Unstruck, Mind
<1>7. CASE Interpret \/ Host
  <2>1. ~InBlock' /\ UNCHANGED <<blocks, patterns, pending_jit>>
    BY <1>7, InterpretIsOutside, HostIsOutside DEF Interpret, Host, ovars, learned
  <2> QED
    BY <1>1, <1>4, <1>5, <2>1 DEF StrikeInv
<1>8. CASE NotDue
  <2>1. ~InBlock' /\ UNCHANGED <<blocks, patterns, pending_jit>>
    BY <1>8 DEF NotDue, InBlock, learned
  <2> QED
    BY <1>1, <1>4, <1>5, <2>1 DEF StrikeInv
<1>9. CASE Optimize
  <2>1. /\ patterns' = mind.patterns /\ blocks' = Compiled(mind.pending)
        /\ pending_jit' = <<>> /\ ~InBlock'
    BY <1>9 DEF Optimize, InBlock, mind
  <2>2. LeftAlone
    BY <1>3, <2>1, BuiltIsUnstruck DEF LeftAlone
  <2> QED
    BY <1>1, <1>6, <2>1, <2>2 DEF StrikeInv
<1>10. CASE Look
  <2>1. blocks' = Recovered(Compiled(pending_jit)) /\ patterns' = patterns /\ pending_jit' = <<>>
    BY <1>10 DEF Look
  <2> DEFINE built == Compiled(pending_jit)
  <2>2. \A a \in DOMAIN built :
          TooManyFailures(patterns, built[a].ctx) => a \in DOMAIN blocks /\ built[a] = blocks[a]
    <3>1. Mind.pending = pending_jit /\ Mind.patterns = patterns
      BY DEF Mind
    <3> QED
      BY <1>1, <1>2, <3>1, BuiltIsUnstruck
  <2> HIDE DEF built
  <2>3. /\ DOMAIN blocks' = DOMAIN built
        /\ \A a \in DOMAIN built :
             /\ blocks'[a].ctx = built[a].ctx
             /\ built[a].is_poisoned /\ ~built[a].rested => blocks'[a].is_poisoned
    <3>1. blocks' = [a \in DOMAIN built |->
                       IF a = ip /\ built[a].rested THEN NewBlock(built[a].ctx) ELSE built[a]]
      BY <2>1 DEF Recovered, built
    <3> QED
      BY <3>1 DEF NewBlock
  <2>4. LeftAlone
    BY <2>1, <2>2, <2>3 DEF LeftAlone
  <2> QED
    BY <1>1, <1>6, <2>1, <2>4 DEF StrikeInv
<1>11. CASE RunBlock
  <2>1. InBlock /\ UNCHANGED <<blocks, patterns, pending_jit>>
    BY <1>11 DEF RunBlock, At, InBlock, ovars, learned
  <2> QED
    BY <1>1, <1>4, <1>5, <2>1 DEF StrikeInv
<1>12. CASE FallBack
  <2>1. ~InBlock' /\ pending_jit = <<>>
    BY <1>12 DEF FallBack, At, InBlock, StrikeInv
  <2>2. CASE Poison
    <3>1. pending_jit' = <<>>
      BY <2>1, <2>2 DEF Poison, Penalize
    <3>2. blocks' = [blocks EXCEPT ![saved.ip] = OutOfUse(@.ctx, FALSE)]
      BY <2>2 DEF Poison
    <3>3. LeftAlone
      BY <3>2 DEF LeftAlone, OutOfUse
    <3> QED
      BY <1>1, <1>6, <2>1, <3>1, <3>3 DEF StrikeInv
  <2>3. CASE UNCHANGED <<blocks, ovars>>
    <3>1. UNCHANGED <<blocks, patterns, pending_jit>>
      BY <2>3 DEF ovars, learned
    <3> QED
      BY <1>1, <1>4, <1>5, <2>1, <3>1 DEF StrikeInv
  <2> QED
    BY <1>12, <2>2, <2>3 DEF FallBack
<1>13. CASE ObserveBetween
  <2>1. /\ patterns' = mind.patterns /\ pending_jit' = mind.pending /\ blocks' = blocks
        /\ at = "idle" /\ at' = at
    BY <1>13 DEF ObserveBetween, Observe, mind, vars
  <2>2. Unstruck(Mind)' /\ ~InBlock'
    BY <1>3, <2>1 DEF Unstruck, Mind, InBlock
  <2>3. LeftAlone
    BY <2>1 DEF LeftAlone
  <2> QED
    BY <1>1, <2>2, <2>3 DEF StrikeInv
<1>14. CASE TimePasses
  <2>1. UNCHANGED <<patterns, pending_jit>> /\ InBlock' = InBlock
    BY <1>14 DEF TimePasses, ovars, learned, vars, InBlock
  <2>2. LeftAlone
    BY <1>14 DEF TimePasses, LeftAlone, OutOfUse
  <2> QED
    BY <1>1, <1>5, <2>1, <2>2 DEF StrikeInv
<1>15. CASE UNCHANGED tvars
  <2>1. UNCHANGED <<blocks, patterns, pending_jit>> /\ InBlock' = InBlock
    BY <1>15 DEF tvars, ovars, learned, vars, InBlock
  <2> QED
    BY <1>1, <1>4, <1>5, <2>1 DEF StrikeInv
<1> QED
  BY <1>7, <1>8, <1>9, <1>10, <1>11, <1>12, <1>13, <1>14, <1>15 DEF TNext, DispatchStep

(***************************************************************************)
(* learning.md:31.  No block is compiled for a pattern that has failed too *)
(* often, although it goes on being seen: nothing waits for the JIT while  *)
(* a block runs, so a pattern that is struck out is not in the queue, and  *)
(* extract_patterns does not put it there again.                           *)
(***************************************************************************)
THEOREM StruckOutLeftAlone == TSpec => StruckOutIsNotRebuilt
<1>1. StrikeInv /\ [TNext]_tvars =>
        [\A a \in DOMAIN blocks' :
           LET ctx == blocks'[a].ctx
           IN  ctx \in DOMAIN patterns' /\ patterns'[ctx].failures > MaxStrikes =>
                 /\ a \in DOMAIN blocks /\ blocks[a].ctx = ctx
                 /\ blocks[a].is_poisoned /\ ~blocks[a].rested => blocks'[a].is_poisoned]_tvars
  BY StrikeTurn DEF LeftAlone, TooManyFailures
<1>2. StrikeInv /\ [TNext]_tvars => StrikeInv'
  BY StrikeTurn
<1> QED
  BY <1>1, <1>2, StrikeStart, PTL DEF TSpec, StruckOutIsNotRebuilt

-----------------------------------------------------------------------------
(***************************************************************************)
(* Blocks and the runs they were compiled from.                            *)
(***************************************************************************)
\* The code is only appended to.
IsMore(c, more) == Len(c) <= Len(more) /\ \A i \in 1 .. Len(c) : more[i] = c[i]

LEMMA CodeGrows ==
  ASSUME TypeOK, [Next]_vars
  PROVE  IsMore(code, code')
<1>1. code \in Seq(Instruction) /\ Len(code) \in Nat
  BY DEF TypeOK, StoreType
<1>2. CASE CompileComma
  <2>1. code' = Append(code, [op |-> "Call", data |-> Arg(1)])
    BY <1>2 DEF CompileComma
  <2>2. Executing({"CompileComma"}) /\ Arity(instr.op) = 1
    BY <1>2, Arities DEF CompileComma, Executing, TakesOne
  <2>3. Arg(1) \in Val
    BY <2>2, OperandsType
  <2>4. [op |-> "Call", data |-> Arg(1)] \in Instruction
    BY <2>3, SmallWords DEF Instruction, CodeOps
  <2> QED
    BY <1>1, <2>1, <2>4, AppendProperties DEF IsMore
<1>3. ASSUME code' = code PROVE IsMore(code, code')
  BY <1>1, <1>3 DEF IsMore
<1>4. CASE PlainStep
  BY <1>3, <1>4, PlainSteps
<1>5. CASE ReturnStep \/ Decode \/ Call \/ Ret \/ Execute
  BY <1>3, <1>5 DEF ReturnStep, WordGoesOn, WordReturns, ErrorEscapes, KeepRunning, RunEnds,
     UnwindThrow, UnwindError, Unwind, NoHandler, InterpretReturns, Decode, Call, Ret, Execute,
     store
<1>6. CASE HostStep
  BY <1>3, <1>6 DEF HostStep, InterpretNumber, InterpretWord, InterpretXt, StartRun, store
<1>7. CASE Crashed \/ UNCHANGED vars
  BY <1>3, <1>7 DEF Crashed, vars, store
<1> QED
  BY <1>2, <1>4, <1>5, <1>6, <1>7
  DEF Next, VmStep, PlainStep, MemoryStep, ControlStep

\* What run_loop traced was run: an event says what stands at its ip.
EventsAreCode ==
  \A i \in 1 .. Len(runtime_trace) :
    runtime_trace[i].kind = "Op" =>
      /\ runtime_trace[i].ip + 1 \in 1 .. Len(code)
      /\ runtime_trace[i].ins = code[runtime_trace[i].ip + 1]

LEMMA EventIsCode ==
  ASSUME LearnInv
  PROVE  \A i \in 1 .. Len(Event) :
           Event[i].kind = "Op" =>
             /\ Event[i].ip + 1 \in 1 .. Len(code)
             /\ Event[i].ins = code[Event[i].ip + 1]
<1>1. CASE at = "step" /\ InCode(ip)
  <2> DEFINE x == [kind |-> "Op", ip |-> ip, ins |-> code[ip + 1]]
  <2>1. Event = <<x>>
    BY <1>1 DEF Event
  <2>2. x.ip = ip /\ x.ins = code[ip + 1] /\ ip + 1 \in 1 .. Len(code)
    BY <1>1 DEF InCode, LearnInv, TierInv, TypeOK, StoreType
  <2> HIDE DEF x
  <2> QED
    BY <2>1, <2>2
<1>2. CASE at = "exec" /\ instr.op = "Call"
  <2>1. Event = <<[kind |-> "EnterWord", word |-> instr.data]>>
    BY <1>2 DEF Event
  <2> QED
    BY <2>1
<1>3. CASE at = "exec" /\ instr.op = "Ret"
  <2>1. Event = <<[kind |-> "ExitWord"]>>
    BY <1>3 DEF Event
  <2> QED
    BY <2>1
<1>4. CASE ~(at = "step" /\ InCode(ip)) /\ ~(at = "exec" /\ instr.op \in {"Call", "Ret"})
  <2>1. Event = <<>>
    BY <1>4 DEF Event
  <2> QED
    BY <2>1
<1> QED
  BY <1>1, <1>2, <1>3, <1>4

\* The trace goes on saying so, however the code grows.
LEMMA EventsStayCode ==
  ASSUME LearnInv, EventsAreCode, [TNext]_tvars
  PROVE  EventsAreCode'
<1>1. runtime_trace \in Seq(TraceEvent) /\ Len(runtime_trace) \in Nat
  BY DEF LearnInv
<1>2. IsMore(code, code') /\ Len(code) \in Nat /\ Len(code') \in Nat
  <2>1. TypeOK /\ [Next]_vars /\ TypeOK'
    BY TierStepIsVmStep, LearnTurn DEF LearnInv, TierInv
  <2> QED
    BY <2>1, CodeGrows DEF TypeOK, StoreType
<1>3. CASE runtime_trace' = runtime_trace
  BY <1>2, <1>3 DEF EventsAreCode, IsMore
<1>4. CASE runtime_trace' = <<>>
  <2>1. Len(runtime_trace') = 0
    BY <1>4
  <2> QED
    BY <2>1 DEF EventsAreCode
<1>5. CASE runtime_trace' = runtime_trace \o Event
  <2>1. Event \in Seq(TraceEvent)
    BY EventType DEF LearnInv, TierInv
  <2>2. PICK more : more = Event
    OBVIOUS
  <2>3. /\ more \in Seq(TraceEvent)
        /\ \A i \in 1 .. Len(more) :
             more[i].kind = "Op" => /\ more[i].ip + 1 \in 1 .. Len(code)
                                    /\ more[i].ins = code[more[i].ip + 1]
    BY <2>1, <2>2, EventIsCode
  <2> DEFINE N == Len(runtime_trace)
  <2>4. /\ Len(more) \in Nat /\ Len(runtime_trace') = N + Len(more)
        /\ \A i \in 1 .. N + Len(more) :
             runtime_trace'[i] = IF i <= N THEN runtime_trace[i] ELSE more[i - N]
    BY <1>1, <1>5, <2>2, <2>3
  <2> SUFFICES ASSUME NEW i \in 1 .. N + Len(more), runtime_trace'[i].kind = "Op"
               PROVE  /\ runtime_trace'[i].ip + 1 \in 1 .. Len(code)
                      /\ runtime_trace'[i].ins = code[runtime_trace'[i].ip + 1]
    BY <1>2, <2>4 DEF EventsAreCode, IsMore
  <2>5. CASE i <= N
    BY <1>1, <2>4, <2>5 DEF EventsAreCode
  <2>6. CASE ~(i <= N)
    <3>1. i - N \in 1 .. Len(more) /\ runtime_trace'[i] = more[i - N]
      BY <1>1, <2>4, <2>6
    <3> QED
      BY <2>3, <3>1
  <2> QED
    BY <2>5, <2>6
<1> QED
  BY <1>3, <1>4, <1>5
  DEF TNext, DispatchStep, Interpret, Host, NotDue, Optimize, Look, RunBlock, FallBack,
      ObserveBetween, TimePasses, tvars

-----------------------------------------------------------------------------
\* Every block is, with its ip, in S.
AllIn(S, built) == \A a \in DOMAIN built : [ip |-> a, ctx |-> built[a].ctx] \in S

LEMMA InsertIsIn ==
  ASSUME NEW S, NEW built, AllIn(S, built), NEW item \in QueueItem, item \in S
  PROVE  AllIn(S, Insert(built, item))
<1>1. item = [ip |-> item.ip, ctx |-> item.ctx]
  BY DEF QueueItem
<1> DEFINE more == With(built, item.ip, NewBlock(item.ctx))
<1>2. AllIn(S, more)
  <2>1. DOMAIN more = DOMAIN built \cup {item.ip} /\ more[item.ip].ctx = item.ctx
        /\ \A a \in DOMAIN built : a # item.ip => more[a] = built[a]
    BY DEF With, NewBlock
  <2> HIDE DEF more
  <2> QED
    BY <1>1, <2>1 DEF AllIn
<1> QED
  BY <1>2 DEF Insert

LEMMA CompiledIsIn ==
  ASSUME NEW S, AllIn(S, blocks), NEW queue \in Seq(QueueItem), queue \in Seq(S)
  PROVE  AllIn(S, Compiled(queue))
<1>1. Compiled(queue) = Building!Fold(blocks, queue)
  BY DEF Compiled, FoldLeft, MapThenFoldSet, Max, Building!Fold, Building!FoldLeft,
         Building!MapThenFoldSet, Building!Max
<1>2. PICK r : /\ r[0] = blocks
               /\ \A n \in 1 .. Len(queue) : r[n] = Insert(r[n - 1], queue[n])
               /\ Compiled(queue) = r[Len(queue)]
  BY <1>1, Building!FoldRuns
<1> DEFINE N == Len(queue)
           Good == { n \in 0 .. N : AllIn(S, r[n]) }
<1>3. N \in Nat /\ \A n \in 1 .. N : queue[n] \in QueueItem /\ queue[n] \in S
  OBVIOUS
<1>4. 0 \in Good
  BY <1>2, <1>3
<1>5. ASSUME NEW n \in 0 .. N - 1, n \in Good PROVE n + 1 \in Good
  <2>1. n + 1 \in 1 .. N /\ (n + 1) - 1 = n /\ n + 1 \in 0 .. N
    BY <1>3
  <2>2. r[n + 1] = Insert(r[n], queue[n + 1]) /\ queue[n + 1] \in QueueItem /\ queue[n + 1] \in S
    BY <1>2, <1>3, <2>1
  <2>3. AllIn(S, r[n + 1])
    BY <1>5, <2>2, InsertIsIn
  <2> QED
    BY <2>1, <2>3
<1>6. N \in Good
  <2> HIDE DEF Good, N
  <2>1. \A n \in 0 .. N - 1 : n \in Good => n + 1 \in Good
    BY <1>5
  <2>2. 0 .. N \subseteq Good
    BY <1>3, <1>4, <2>1, Building!UpTo
  <2> QED
    BY <1>3, <2>2
<1> QED
  BY <1>2, <1>6

\* Blocks and queue hold nothing but S.
HoldIn(S, built, queue) == AllIn(S, built) /\ \A k \in DOMAIN queue : queue[k] \in S

LEMMA HeldIsHeld == HoldIn(Held, blocks, pending_jit)
  BY DEF HoldIn, AllIn, Held

\* What is held, and what the trace has of it.
HeldOrTraced == Held \cup { item \in QueueItem : Traced(runtime_trace, item) }

LEMMA LearnedIsIn ==
  ASSUME LearnInv
  PROVE  /\ Learned(runtime_trace).mind.pending \in Seq(HeldOrTraced)
         /\ Learned(runtime_trace).mind.pending \in Seq(QueueItem)
<1>1. runtime_trace \in Seq(TraceEvent) /\ OInv(NoLimit)
  BY DEF LearnInv
<1>2. Mind \in Grown(Mind, NoLimit) /\ Mind \in Minds
  BY <1>1, NoLimitType, SoundIsGrown DEF OInv, Grown
<1>3. Admits(HeldOrTraced, runtime_trace)
  BY DEF Admits, HeldOrTraced
<1>4. pending_jit \in Seq(QueueItem)
  BY <1>1, SoundParts DEF QueueItem
<1>5. pending_jit \in Seq(HeldOrTraced)
  <2>1. \A k \in DOMAIN pending_jit : pending_jit[k] \in HeldOrTraced
    BY DEF HeldOrTraced, Held
  <2> QED
    BY <1>4, <2>1
<1>6. Learned(runtime_trace).mind.pending \in Seq(HeldOrTraced)
  BY <1>1, <1>2, <1>3, <1>5, NoLimitType, LearnedFits
<1> DEFINE more == Limit({}, NoLimit, runtime_trace, Len(runtime_trace))
<1>7. Learned(runtime_trace).mind \in Minds
  <2>1. decay_counter \in 0 .. DecayEvents
    BY <1>1, SoundParts
  <2>2. Learned(runtime_trace).mind \in Grown(Mind, more)
    BY <1>1, <1>2, <2>1, NoLimitType, LearnedKeeps, LimitType
  <2> QED
    BY <2>2 DEF Grown
<1> QED
  BY <1>6, <1>7 DEF Minds

\* No step holds what was neither held nor traced.
LEMMA HeldTurn ==
  ASSUME LearnInv, [TNext]_tvars
  PROVE  HoldIn(HeldOrTraced, blocks', pending_jit')
<1>1. HoldIn(HeldOrTraced, blocks, pending_jit)
  BY HeldIsHeld DEF HoldIn, AllIn, HeldOrTraced
<1>2. ASSUME UNCHANGED <<blocks, pending_jit>>
      PROVE  HoldIn(HeldOrTraced, blocks', pending_jit')
  BY <1>1, <1>2
<1>3. \A k \in DOMAIN <<>> : FALSE
  OBVIOUS
<1>4. CASE Interpret \/ Host \/ RunBlock \/ NotDue \/ UNCHANGED tvars
  BY <1>2, <1>4 DEF Interpret, Host, RunBlock, NotDue, ovars, learned, tvars
<1>5. CASE Optimize
  <2>1. blocks' = Compiled(Learned(runtime_trace).mind.pending) /\ pending_jit' = <<>>
    BY <1>5 DEF Optimize
  <2>2. AllIn(HeldOrTraced, blocks')
    BY <1>1, <2>1, LearnedIsIn, CompiledIsIn DEF HoldIn
  <2> QED
    BY <1>3, <2>1, <2>2 DEF HoldIn
<1>6. CASE Look
  <2>1. blocks' = Recovered(Compiled(pending_jit)) /\ pending_jit' = <<>>
    BY <1>6 DEF Look
  <2>2. pending_jit \in Seq(QueueItem) /\ pending_jit \in Seq(HeldOrTraced)
    <3>1. pending_jit \in Seq(QueueItem)
      BY SoundParts DEF LearnInv, QueueItem
    <3> QED
      BY <1>1, <3>1 DEF HoldIn
  <2>3. AllIn(HeldOrTraced, Compiled(pending_jit))
    BY <1>1, <2>2, CompiledIsIn DEF HoldIn
  <2>4. AllIn(HeldOrTraced, blocks')
    BY <2>1, <2>3 DEF AllIn, Recovered, NewBlock
  <2> QED
    BY <1>3, <2>1, <2>4 DEF HoldIn
<1>7. CASE FallBack
  <2>1. CASE Poison
    <3>1. /\ blocks' = [blocks EXCEPT ![saved.ip] = OutOfUse(@.ctx, FALSE)]
          /\ pending_jit' = pending_jit
      BY <2>1 DEF Poison, Penalize, learned
    <3> QED
      BY <1>1, <3>1 DEF HoldIn, AllIn, OutOfUse
  <2>2. CASE UNCHANGED <<blocks, ovars>>
    BY <1>2, <2>2 DEF ovars, learned
  <2> QED
    BY <1>7, <2>1, <2>2 DEF FallBack
<1>8. CASE ObserveBetween
  <2>1. pending_jit' = Learned(runtime_trace).mind.pending /\ blocks' = blocks
    BY <1>8 DEF ObserveBetween, Observe
  <2> QED
    BY <1>1, <2>1, LearnedIsIn DEF HoldIn
<1>9. CASE TimePasses
  <2>1. pending_jit' = pending_jit
    BY <1>9 DEF TimePasses, ovars, learned
  <2>2. AllIn(HeldOrTraced, blocks')
    BY <1>1, <1>9 DEF TimePasses, HoldIn, AllIn, OutOfUse
  <2> QED
    BY <1>1, <2>1, <2>2 DEF HoldIn
<1> QED
  BY <1>4, <1>5, <1>6, <1>7, <1>8, <1>9 DEF TNext, DispatchStep

\* What a trace of run_loop holds was run.
LEMMA TracedWasRun ==
  ASSUME LearnInv, EventsAreCode, NEW item \in QueueItem, Traced(runtime_trace, item)
  PROVE  WasRun(runtime_trace, item)
<1> DEFINE ops == item.ctx.original_ops
<1>1. Len(ops) \in Nat /\ DOMAIN ops = 1 .. Len(ops)
  <2>1. ops \in Seq([op : Contracted, data : Int])
    BY DEF QueueItem, Context
  <2> HIDE DEF ops
  <2> QED
    BY <2>1
<1>2. runtime_trace \in Seq(TraceEvent) /\ DOMAIN runtime_trace = 1 .. Len(runtime_trace)
  BY DEF LearnInv
<1>3. PICK s, e \in DOMAIN runtime_trace :
        /\ IsPiece(runtime_trace, s, e)
        /\ \E p, q \in s .. e :
             /\ p <= q /\ (IsStraight(runtime_trace, s, e) => p = q)
             /\ runtime_trace[p].ip = item.ip
             /\ \A i \in DOMAIN ops :
                  q + i - 1 <= e /\ runtime_trace[q + i - 1].ins = ops[i]
  BY DEF Traced
<1>4. PICK p, q \in s .. e :
        /\ p <= q /\ (IsStraight(runtime_trace, s, e) => p = q)
        /\ runtime_trace[p].ip = item.ip
        /\ \A i \in DOMAIN ops :
             q + i - 1 <= e /\ runtime_trace[q + i - 1].ins = ops[i]
  BY <1>3
<1> HIDE DEF ops
<1>5. ASSUME NEW i \in DOMAIN ops
      PROVE  q + i - 1 <= e /\ code[runtime_trace[q + i - 1].ip + 1] = ops[i]
  <2> DEFINE j == q + i - 1
  <2>1. j <= e /\ runtime_trace[j].ins = ops[i]
    BY <1>4
  <2>2. j \in s .. e
    BY <1>1, <1>2, <2>1
  <2> HIDE DEF j
  <2>3. j \in 1 .. Len(runtime_trace) /\ runtime_trace[j].kind = "Op"
    BY <1>2, <1>3, <2>2 DEF IsPiece
  <2>4. runtime_trace[j].ins = code[runtime_trace[j].ip + 1]
    BY <2>3 DEF EventsAreCode
  <2> QED
    BY <2>1, <2>4 DEF j
<1> QED
  BY <1>3, <1>4, <1>5 DEF WasRun, ops

RunInv == LearnInv /\ EventsAreCode

(***************************************************************************)
(* What synchronize_jit compiles, and what waits for it, was run: whatever *)
(* the contracts refuse, the cut leaves out and the offsets add up to, and *)
(* however the code grows between the run and the reading of its trace.    *)
(* The ip a block is entered at is one of the same piece, no later than    *)
(* the instructions the block was made of, and theirs when the piece has   *)
(* no gap.                                                                 *)
(***************************************************************************)
THEOREM BlocksAreWhatWasRun == TSpec => BlocksWereRun
<1>1. TInit => RunInv
  <2> SUFFICES ASSUME TInit PROVE EventsAreCode
    BY LearnStart DEF RunInv
  <2>1. Len(runtime_trace) = 0
    BY DEF TInit
  <2> QED
    BY <2>1 DEF EventsAreCode
<1>2. RunInv /\ [TNext]_tvars => RunInv'
  BY LearnTurn, EventsStayCode DEF RunInv
<1>3. RunInv /\ [TNext]_tvars =>
        [\A item \in Held' : item \in Held \/ WasRun(runtime_trace, item)]_tvars
  <2> SUFFICES ASSUME RunInv, [TNext]_tvars, NEW item \in Held'
               PROVE  item \in Held \/ WasRun(runtime_trace, item)
    OBVIOUS
  <2>1. item \in HeldOrTraced
    BY HeldTurn DEF RunInv, HoldIn, AllIn, Held
  <2> QED
    BY <2>1, TracedWasRun DEF RunInv, HeldOrTraced
<1> QED
  BY <1>1, <1>2, <1>3, PTL DEF TSpec, BlocksWereRun

=============================================================================
