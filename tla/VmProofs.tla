------------------------------ MODULE VmProofs ------------------------------
(***************************************************************************)
(* Theorems about Vm, for every word size, stack limit, program and bound. *)
(***************************************************************************)
EXTENDS Vm, SequenceTheorems, TLAPS

-----------------------------------------------------------------------------
(***************************************************************************)
(* Words.                                                                  *)
(***************************************************************************)
LEMMA Positive ==
  /\ Half \in Nat \ {0}
  /\ 2^CountBits \in Nat \ {0} /\ 2^ByteBits \in Nat \ {0}
  /\ \A i \in 0 .. Width : 2^i \in Nat \ {0}
  /\ \A i \in 0 .. (CellBytes - 1) : 2^(ByteBits * i) \in Nat \ {0}
<1> DEFINE Last2 == Width + CountBits + ByteBits * CellBytes
<1>1. ByteBits * CellBytes \in Nat /\ Width \in Nat /\ CountBits \in Nat
  BY WordAssumption
<1>2. Width - 1 \in 0 .. Last2 /\ CountBits \in 0 .. Last2 /\ 0 .. Width \subseteq 0 .. Last2
  BY <1>1, WordAssumption
<1>3. ByteBits \in 0 .. Last2
  BY <1>1, WordAssumption
<1>4. \A i \in 0 .. (CellBytes - 1) : ByteBits * i \in 0 .. Last2
  BY <1>1, WordAssumption
<1> QED
  BY <1>2, <1>3, <1>4, PowerAssumption DEF Half

LEMMA SmallWords == 0 \in Val /\ -1 \in Val /\ -Half \in Val /\ Val \subseteq Int
  BY Positive DEF Val

LEMMA ModType ==
  ASSUME NEW x \in Int, NEW m \in Nat \ {0}
  PROVE  x % m \in 0 .. (m - 1)
  OBVIOUS

LEMMA WrapType ==
  ASSUME NEW x \in Int
  PROVE  Wrap(x) \in Val
<1> DEFINE H == Half
<1>1. H \in Nat \ {0}
  BY Positive
<1> HIDE DEF H
<1>2. (x + H) % (2 * H) \in 0 .. (2 * H - 1)
  BY <1>1
<1>3. ((x + H) % (2 * H)) - H \in -H .. (H - 1)
  BY <1>1, <1>2
<1> QED
  BY <1>3 DEF H, Wrap, Val

LEMMA DivisionIsUnique ==
  ASSUME NEW m \in Nat \ {0}, NEW q \in Int, NEW k \in Int, NEW r \in 0 .. (m - 1),
         NEW s \in 0 .. (m - 1), m * q + r = m * k + s
  PROVE  r = s
<1>1. CASE q >= k + 1
  <2>1. m * q >= m * (k + 1)
    BY <1>1
  <2>2. m * (k + 1) = m * k + m
    OBVIOUS
  <2> QED
    BY <2>1, <2>2
<1>2. CASE k >= q + 1
  <2>1. m * k >= m * (q + 1)
    BY <1>2
  <2>2. m * (q + 1) = m * q + m
    OBVIOUS
  <2> QED
    BY <2>1, <2>2
<1> QED
  BY <1>1, <1>2

LEMMA ModOf ==
  ASSUME NEW m \in Nat \ {0}, NEW x \in Int
  PROVE  \E q \in Int : x = m * q + (x % m)
<1>1. x = m * (x \div m) + (x % m) /\ x \div m \in Int
  OBVIOUS
<1> QED
  BY <1>1

\* Words that are the same but for a multiple of 2^Width.
LEMMA WrapsTheSame ==
  ASSUME NEW x \in Int, NEW y \in Int, NEW k \in Int, x = y + (2 * Half) * k
  PROVE  Wrap(x) = Wrap(y)
<1> DEFINE H == Half
           m == 2 * H
<1>1. H \in Nat \ {0}
  BY Positive
<1> HIDE DEF H
<1>2. m \in Nat \ {0}
  BY <1>1
<1>3. x = y + m * k
  BY DEF H
<1> HIDE DEF m
<1> DEFINE a == x + H
           b == y + H
<1>4. a \in Int /\ b \in Int
  BY <1>1
<1> HIDE DEF a, b
<1>5. PICK q \in Int : a = m * q + (a % m)
  BY <1>2, <1>4, ModOf
<1>6. PICK p \in Int : b = m * p + (b % m)
  BY <1>2, <1>4, ModOf
<1>7. a % m \in 0 .. (m - 1) /\ b % m \in 0 .. (m - 1)
  BY <1>2, <1>4, ModType
<1>8. m * (p + k) = m * p + m * k
  BY <1>2
<1>9. m * q + (a % m) = m * (p + k) + (b % m)
  <2>1. m * p \in Int /\ m * k \in Int /\ m * q \in Int
    BY <1>2
  <2>2. a = b + m * k
    BY <1>1, <1>3, <2>1 DEF a, b
  <2> QED
    BY <1>5, <1>6, <1>7, <1>8, <1>4, <2>1, <2>2
<1>10. a % m = b % m
  <2>1. p + k \in Int
    OBVIOUS
  <2> QED
    BY <1>2, <1>7, <1>9, <2>1, DivisionIsUnique
<1> QED
  BY <1>10 DEF a, b, m, H, Wrap

LEMMA WrapOf ==
  ASSUME NEW x \in Int
  PROVE  \E k \in Int : Wrap(x) = x + (2 * Half) * k
<1> DEFINE H == Half
           m == 2 * H
<1>1. H \in Nat \ {0}
  BY Positive
<1> HIDE DEF H
<1>2. m \in Nat \ {0}
  BY <1>1
<1> HIDE DEF m
<1> DEFINE a == x + H
<1>3. a \in Int
  BY <1>1
<1> HIDE DEF a
<1>4. PICK q \in Int : a = m * q + (a % m)
  BY <1>2, <1>3, ModOf
<1>5. a % m \in Int
  BY <1>2, <1>3, ModType
<1>6. m * (-q) = -(m * q) /\ m * q \in Int /\ -q \in Int
  BY <1>2
<1>7. (a % m) - H = x + m * (-q)
  <2>1. a = x + H
    BY DEF a
  <2> HIDE DEF a
  <2> QED
    BY <1>1, <1>4, <1>5, <1>6, <2>1
<1> QED
  BY <1>6, <1>7 DEF a, m, H, Wrap

\* Wrapping before an addition is no other than wrapping after it.
LEMMA WrapSum ==
  ASSUME NEW x \in Int, NEW y \in Int
  PROVE  Wrap(Wrap(y) + Wrap(x)) = Wrap(x + y)
<1> DEFINE m == 2 * Half
<1>1. PICK k \in Int : Wrap(x) = x + m * k
  BY WrapOf
<1>2. PICK j \in Int : Wrap(y) = y + m * j
  BY WrapOf
<1>3. m \in Nat
  BY Positive
<1>4. Wrap(y) + Wrap(x) = (x + y) + m * (k + j)
  <2> HIDE DEF m
  <2>1. m * (k + j) = m * k + m * j /\ m * k \in Int /\ m * j \in Int
    BY <1>3
  <2> QED
    BY <1>1, <1>2, <2>1
<1>5. Wrap(y) + Wrap(x) \in Int /\ x + y \in Int /\ k + j \in Int
  <2>1. Wrap(x) \in Val /\ Wrap(y) \in Val
    BY WrapType
  <2>2. Wrap(x) \in Int /\ Wrap(y) \in Int
    BY <2>1, SmallWords
  <2> QED
    BY <2>2
<1> HIDE DEF m
<1> QED
  BY <1>4, <1>5, WrapsTheSame DEF m

\* A word is its own wrapping.
LEMMA WrapWord ==
  ASSUME NEW v \in Val
  PROVE  Wrap(v) = v
<1> DEFINE H == Half
           m == 2 * H
           a == v + H
<1>1. H \in Nat \ {0} /\ v \in -H .. (H - 1)
  BY Positive DEF Val
<1> HIDE DEF H
<1>2. m \in Nat \ {0} /\ a \in 0 .. (m - 1)
  BY <1>1
<1>3. a = m * 0 + a
  BY <1>1, <1>2
<1> HIDE DEF m
<1>4. a - H = v
  BY <1>1
<1> HIDE DEF a
<1>5. a \in Int
  BY <1>2
<1>6. PICK q \in Int : a = m * q + (a % m)
  BY <1>2, <1>5, ModOf
<1>7. a % m \in 0 .. (m - 1)
  BY <1>2, <1>5, ModType
<1>8. m * 0 + a = m * q + (a % m)
  BY <1>3, <1>6
<1>9. a % m = a
  BY <1>2, <1>6, <1>7, <1>8, DivisionIsUnique
<1> QED
  BY <1>4, <1>9 DEF a, m, H, Wrap

\* The remainder is that of the magnitudes, with the sign of the dividend.
LEMMA RemainderOf ==
  ASSUME NEW b \in Int, NEW a \in Int, a # 0
  PROVE  /\ Quotient(b, a) \in Int /\ Remainder(b, a) \in Int
         /\ b = Quotient(b, a) * a + Remainder(b, a)
         /\ Magnitude(Remainder(b, a)) < Magnitude(a)
         /\ Remainder(b, a) # 0 => (Remainder(b, a) < 0) = (b < 0)
<1> DEFINE n == Magnitude(b)
           d == Magnitude(a)
           p == n \div d
           e == n % d
           q == Quotient(b, a)
<1>1. n \in Nat /\ d \in Nat \ {0}
  BY DEF Magnitude
<1>2. q = IF (b < 0) = (a < 0) THEN p ELSE -p
  BY DEF Quotient
<1>3. (b < 0 => b = -n) /\ (~(b < 0) => b = n) /\ (a < 0 => a = -d) /\ (~(a < 0) => a = d)
  BY DEF Magnitude
<1> HIDE DEF n, d
<1>4. p \in Nat /\ e \in 0 .. (d - 1) /\ n = d * p + e
  BY <1>1
<1> HIDE DEF p, e, q
<1>5. q \in Int
  BY <1>2, <1>4
<1> DEFINE aq == a * q
           dp == d * p
<1>6. dp \in Int /\ aq \in Int
  BY <1>1, <1>4, <1>5
<1>7. aq = IF b < 0 THEN -dp ELSE dp
  <2>1. (-d) * p = -dp /\ d * (-p) = -dp /\ (-d) * (-p) = dp
    BY <1>1, <1>4
  <2>2. CASE b < 0 /\ a < 0
    BY <1>2, <1>3, <2>1, <2>2
  <2>3. CASE b < 0 /\ ~(a < 0)
    BY <1>2, <1>3, <2>1, <2>3
  <2>4. CASE ~(b < 0) /\ a < 0
    BY <1>2, <1>3, <2>1, <2>4
  <2>5. CASE ~(b < 0) /\ ~(a < 0)
    BY <1>2, <1>3, <2>1, <2>5
  <2> QED
    BY <2>2, <2>3, <2>4, <2>5
<1>8. n = dp + e
  BY <1>4
<1>9. q * a = aq
  BY <1>5
<1> HIDE DEF dp
<1>10. b - aq = IF b < 0 THEN -e ELSE e
  <2> HIDE DEF aq
  <2> QED
    BY <1>1, <1>3, <1>4, <1>6, <1>7, <1>8
<1>11. Remainder(b, a) = b - aq
  BY DEF Remainder, q
<1> HIDE DEF aq
<1> DEFINE r == Remainder(b, a)
<1>12. r \in Int /\ r = b - aq /\ (b < 0 => r = -e) /\ (~(b < 0) => r = e)
  BY <1>6, <1>10, <1>11
<1> HIDE DEF r
<1>13. b = q * a + r
  BY <1>6, <1>9, <1>12
<1>14. Magnitude(r) = e /\ e < Magnitude(a)
  <2>1. Magnitude(r) = e
    BY <1>1, <1>4, <1>12 DEF Magnitude
  <2>2. e < d
    BY <1>1, <1>4
  <2> QED
    BY <2>1, <2>2 DEF d
<1>15. r # 0 => (r < 0) = (b < 0)
  BY <1>1, <1>4, <1>12
<1> QED
  BY <1>5, <1>12, <1>13, <1>14, <1>15 DEF q, r

LEMMA WrappedDivision ==
  ASSUME NEW b \in Val, NEW a \in Val, a # 0
  PROVE  LET q == Wrap(Quotient(b, a))
             r == Wrap(Remainder(b, a))
         IN  /\ Wrap(q * a + r) = b
             /\ Magnitude(r) < Magnitude(a)
             /\ r # 0 => (r < 0) = (b < 0)
<1> DEFINE Q == Quotient(b, a)
           R == Remainder(b, a)
           W == Wrap(Q)
           m == 2 * Half
<1>1. a \in Int /\ b \in Int /\ Half \in Nat \ {0}
  BY SmallWords, Positive
<1>2. /\ Q \in Int /\ R \in Int /\ b = Q * a + R /\ Magnitude(R) < Magnitude(a)
      /\ R # 0 => (R < 0) = (b < 0)
  BY <1>1, RemainderOf
<1> HIDE DEF Q, R
<1>3. R \in Val
  <2>1. Magnitude(a) <= Half
    BY <1>1 DEF Val, Magnitude
  <2> QED
    BY <1>1, <1>2, <2>1 DEF Val, Magnitude
<1>4. Wrap(R) = R
  BY <1>3, WrapWord
<1>5. PICK k \in Int : W = Q + m * k
  BY <1>2, WrapOf
<1>6. W \in Int /\ m \in Int
  <2>1. W \in Val
    BY <1>2, WrapType
  <2> HIDE DEF W
  <2> QED
    BY <1>1, <2>1, SmallWords
<1> HIDE DEF W, m
<1>7. W * a + R = b + m * (k * a)
  <2>1. (Q + m * k) * a = Q * a + m * (k * a)
    BY <1>1, <1>2, <1>6
  <2>2. Q * a \in Int /\ m * (k * a) \in Int
    BY <1>1, <1>2, <1>6
  <2> QED
    BY <1>1, <1>2, <1>5, <2>1, <2>2
<1>8. W * a + R \in Int /\ k * a \in Int
  BY <1>1, <1>2, <1>6
<1>9. Wrap(W * a + R) = Wrap(b)
  BY <1>1, <1>7, <1>8, WrapsTheSame DEF m
<1>10. Wrap(b) = b
  BY WrapWord
<1> QED
  BY <1>2, <1>4, <1>9, <1>10 DEF Q, R, W

LEMMA SumType ==
  ASSUME NEW a \in Val, NEW b \in Int
  PROVE  Wrap(a + b) \in Val
<1>1. a + b \in Int
  BY SmallWords
<1> QED
  BY <1>1, WrapType

LEMMA BitType ==
  ASSUME NEW v \in Val, NEW i \in 0 .. Width
  PROVE  Bit(v, i) \in {0, 1}
<1> DEFINE q == (v % (2 * Half)) \div 2^i
<1>1. v % (2 * Half) \in Int
  BY Positive DEF Val
<1>2. q \in Int
  BY <1>1, Positive
<1> HIDE DEF q
<1>3. q % 2 \in {0, 1}
  BY <1>2
<1> QED
  BY <1>3 DEF q, Bit

LEMMA BytesType ==
  ASSUME NEW v \in Val
  PROVE  Bytes(v) \in [0 .. (CellBytes - 1) -> Byte]
<1> SUFFICES ASSUME NEW i \in 0 .. (CellBytes - 1)
             PROVE  ((v % (2 * Half)) \div 2^(ByteBits * i)) % 2^ByteBits \in Byte
  BY DEF Bytes
<1> DEFINE q == (v % (2 * Half)) \div 2^(ByteBits * i)
<1>1. v % (2 * Half) \in Int
  BY Positive DEF Val
<1>2. q \in Int
  BY <1>1, Positive
<1> HIDE DEF q
<1>3. q % 2^ByteBits \in Byte
  BY <1>2, Positive, ModType DEF Byte
<1> QED
  BY <1>3 DEF q

\* The bits of any pattern are the bits of some word.
LEMMA BitsOfWord ==
  ASSUME NEW op, NEW u \in Val, NEW v \in Val
  PROVE  (CHOOSE w \in Val : \A i \in 0 .. (Width - 1) :
            Bit(w, i) = BitResult(op, Bit(u, i), Bit(v, i))) \in Val
<1> DEFINE p == [i \in 0 .. (Width - 1) |-> BitResult(op, Bit(u, i), Bit(v, i))]
<1>1. p \in [0 .. (Width - 1) -> {0, 1}]
  <2> SUFFICES ASSUME NEW i \in 0 .. (Width - 1)
               PROVE  BitResult(op, Bit(u, i), Bit(v, i)) \in {0, 1}
    OBVIOUS
  <2>1. Bit(u, i) \in {0, 1} /\ Bit(v, i) \in {0, 1}
    BY BitType, WordAssumption
  <2> QED
    BY <2>1 DEF BitResult
<1>2. \E w \in Val : \A i \in 0 .. (Width - 1) : Bit(w, i) = p[i]
  BY <1>1, RepresentationAssumption
<1>3. \E w \in Val : \A i \in 0 .. (Width - 1) :
        Bit(w, i) = BitResult(op, Bit(u, i), Bit(v, i))
  BY <1>2
<1> QED
  BY <1>3

-----------------------------------------------------------------------------
(***************************************************************************)
(* The operands, and what a push leaves.                                   *)
(***************************************************************************)
\* Strings are told apart only when every set of opcodes is expanded.
LEMMA Arities ==
  ASSUME NEW op
  PROVE  /\ op = "Rot" => Arity(op) = 3
         /\ op \in TakesTwo => Arity(op) = 2
         /\ op \in TakesOne => Arity(op) = 1
         /\ op \in {"Push", "FromR", "RFetch", "I", "J"} \cup ConstantOps \cup {"Cr", "Noop"}
              => Arity(op) = 0
  BY DEF Arity, TakesOne, TakesTwo, ArithmeticOps, DivisionOps, BitOps, ShiftOps,
         ExtremeOps, CompareOps, UnaryOps, ConstantOps

LEMMA ArityType ==
  ASSUME NEW op
  PROVE  Arity(op) \in {0, 1, 2, 3}
  BY DEF Arity

LEMMA ArgType ==
  ASSUME TypeOK, NEW i \in 1 .. d_depth
  PROVE  Arg(i) \in Val
<1>1. d_depth - i + 1 \in 1 .. (StackSlots - 2)
  BY StackAssumption DEF TypeOK, DataType
<1> QED
  BY <1>1 DEF Arg, TypeOK, DataType

LEMMA FinishType ==
  ASSUME NEW status \in Status, Finish(status)
  PROVE  /\ at' = "result"
         /\ instr' \in Instruction /\ result' \in [status : Status, code : Val]
         /\ result'.status = status
  BY SmallWords DEF Finish, Return, Nop, Instruction, CodeOps

\* What the steps of the interpreter do to the data stack: they leave it,
\* pop, or push words within the limit.
DataStep ==
  /\ DataType'
  /\ CanariesIntact'
  /\ at' \in {"idle", "step", "exec", "result", "crash"}
  /\ instr' \in Instruction
  /\ result' \in [status : Status, code : Val]

\* An instruction leaves the cells below its operands where they are.
OperandsOnly ==
  \A s \in 1 .. (d_depth - Arity(instr.op)) :
    d_stack'[s] = d_stack[s] /\ s <= d_depth'

LEMMA PopPushType ==
  ASSUME TypeOK, CanariesIntact, d_depth >= Arity(instr.op),
         NEW out \in Seq(Val), PopPush(out)
  PROVE  DataStep /\ OperandsOnly
<1> DEFINE base == d_depth - Arity(instr.op)
           top  == Least(base + Len(out), PushLimit)
<1>1. base \in 0 .. PushLimit /\ top \in base .. PushLimit /\ top <= base + Len(out)
  BY ArityType, StackAssumption DEF Least, TypeOK, DataType
<1>2. /\ d_stack' = [s \in Slots |->
                       IF s \in (base + 1) .. top THEN out[s - base]
                                                  ELSE d_stack[s]]
      /\ d_depth' = top
      /\ Finish("Done") \/ Finish("Err")
  BY DEF PopPush
<1> HIDE DEF base, top
<1>3. \A s \in (base + 1) .. top : out[s - base] \in Val
  BY <1>1, ElementOfSeq
<1>4. DataType'
  BY <1>1, <1>2, <1>3, StackAssumption DEF TypeOK, DataType, Slots
<1>5. CanariesIntact'
  BY <1>1, <1>2, StackAssumption DEF CanariesIntact, Slots
<1>6. \A s \in 1 .. base : d_stack'[s] = d_stack[s] /\ s <= d_depth'
  BY <1>1, <1>2, StackAssumption DEF Slots
<1>7. OperandsOnly
  BY <1>6 DEF OperandsOnly, base
<1> QED
  BY <1>2, <1>4, <1>5, <1>7, FinishType DEF DataStep, Status

LEMMA PopType ==
  ASSUME TypeOK, CanariesIntact, d_depth >= Arity(instr.op), Pop
  PROVE  DataType' /\ CanariesIntact'
<1>1. d_depth' \in 0 .. PushLimit /\ d_stack' = d_stack
  BY ArityType, StackAssumption DEF Pop, TypeOK, DataType
<1> QED
  BY <1>1 DEF TypeOK, DataType, CanariesIntact

LEMMA PopOnly ==
  ASSUME TypeOK, d_depth >= Arity(instr.op), Pop
  PROVE  OperandsOnly
  BY ArityType, StackAssumption DEF Pop, OperandsOnly, TypeOK, DataType

\* The rest of the state keeps its type when it keeps its value.
LEMMA KeepsType ==
  ASSUME TypeOK
  PROVE  /\ UNCHANGED store => StoreType'
         /\ UNCHANGED data => DataType'
         /\ UNCHANGED data /\ CanariesIntact => CanariesIntact'
         /\ UNCHANGED frames => FramesType'
         /\ UNCHANGED <<ip, caller>> =>
              /\ ip' \in Int
              /\ host' \in Seq(HostFrame)
              /\ driver' \in {"run_loop", "interpret_loop"}
  BY DEF TypeOK, StoreType, DataType, FramesType, ControlType, CanariesIntact,
         store, data, frames, caller

LEMMA ControlFromParts ==
  ASSUME DataStep,
         ip' \in Int, host' \in Seq(HostFrame),
         driver' \in {"run_loop", "interpret_loop"}
  PROVE  ControlType'
  BY DEF ControlType, DataStep

LEMMA ComputeType ==
  ASSUME TypeOK, CanariesIntact, NEW ops, NEW out, Compute(ops, out),
         out \in Seq(Val)
  PROVE  TypeOK' /\ CanariesIntact' /\ OperandsOnly
<1>1. DataStep /\ OperandsOnly
  BY PopPushType DEF Compute, Executing
<1>2. UNCHANGED store /\ UNCHANGED frames /\ UNCHANGED <<ip, caller>>
  BY DEF Compute
<1> QED
  BY <1>1, <1>2, KeepsType, ControlFromParts DEF TypeOK, DataStep

LEMMA ComputeOneType ==
  ASSUME TypeOK, CanariesIntact, NEW ops, NEW v \in Val, Compute(ops, <<v>>)
  PROVE  TypeOK' /\ CanariesIntact' /\ OperandsOnly
<1>1. <<v>> \in Seq(Val)
  OBVIOUS
<1> QED
  BY <1>1, ComputeType

LEMMA RefuseType ==
  ASSUME TypeOK, CanariesIntact, NEW ops, Refuse(ops)
  PROVE  TypeOK' /\ CanariesIntact'
<1>1. DataStep
  BY PopType, FinishType DEF Refuse, Executing, DataStep, Status
<1>2. UNCHANGED store /\ UNCHANGED frames /\ UNCHANGED <<ip, caller>>
  BY DEF Refuse
<1> QED
  BY <1>1, <1>2, KeepsType, ControlFromParts DEF TypeOK, DataStep

\* The operands of an instruction that executes are words.
LEMMA OperandsType ==
  ASSUME TypeOK, NEW ops, Executing(ops)
  PROVE  \A i \in 1 .. Arity(instr.op) : Arg(i) \in Val
<1>1. \A i \in 1 .. Arity(instr.op) : i \in 1 .. d_depth
  BY ArityType DEF Executing, TypeOK, DataType
<1> QED
  BY <1>1, ArgType

LEMMA PushedType ==
  ASSUME NEW a \in Val, NEW b \in Val, NEW c \in Val, NEW d \in Val
  PROVE  /\ <<>> \in Seq(Val) /\ <<a>> \in Seq(Val) /\ <<a, b>> \in Seq(Val)
         /\ <<a, b, c>> \in Seq(Val) /\ <<a, b, c, d>> \in Seq(Val)
  OBVIOUS

-----------------------------------------------------------------------------
(***************************************************************************)
(* The instructions that only compute.                                     *)
(***************************************************************************)
LEMMA ArithmeticType ==
  ASSUME TypeOK, CanariesIntact, Arithmetic
  PROVE  TypeOK' /\ CanariesIntact' /\ OperandsOnly
<1>1. Executing(ArithmeticOps)
  BY DEF Arithmetic, Compute
<1>2. Arity(instr.op) = 2
  BY <1>1, Arities DEF Executing, TakesTwo
<1>3. Arg(1) \in Val /\ Arg(2) \in Val
  BY <1>1, <1>2, OperandsType
<1>4. ArithmeticResult(instr.op, Arg(2), Arg(1)) \in Val
  BY <1>3, WrapType, SmallWords DEF ArithmeticResult
<1> QED
  BY <1>4, ComputeOneType DEF Arithmetic

LEMMA DivisionType ==
  ASSUME NEW op, NEW b \in Val, NEW a \in Val, a # 0
  PROVE  DivisionResult(op, b, a) \in Seq(Val)
<1>1. Quotient(b, a) \in Int
  BY SmallWords DEF Quotient, Magnitude
<1>2. Remainder(b, a) \in Int
  BY <1>1, SmallWords DEF Remainder
<1>3. Wrap(Quotient(b, a)) \in Val /\ Wrap(Remainder(b, a)) \in Val
  BY <1>1, <1>2, WrapType
<1> QED
  BY <1>3 DEF DivisionResult

LEMMA DivideType ==
  ASSUME TypeOK, CanariesIntact, Divide
  PROVE  TypeOK' /\ CanariesIntact' /\ OperandsOnly
<1>1. Executing(DivisionOps) /\ Arg(1) # 0
  BY DEF Divide
<1>2. Arity(instr.op) = 2
  BY <1>1, Arities DEF Executing, TakesTwo
<1>3. Arg(1) \in Val /\ Arg(2) \in Val
  BY <1>1, <1>2, OperandsType
<1> QED
  BY <1>1, <1>3, DivisionType, ComputeType DEF Divide

LEMMA ShuffleType ==
  ASSUME TypeOK, CanariesIntact, Shuffle
  PROVE  TypeOK' /\ CanariesIntact' /\ OperandsOnly
<1>1. Executing(ShuffleOps)
  BY DEF Shuffle, Compute
<1>2. \A i \in 1 .. Arity(instr.op) : Arg(i) \in Val
  BY <1>1, OperandsType
<1>3. Shuffled(instr.op, Arg(3), Arg(2), Arg(1)) \in Seq(Val)
  <2>1. CASE instr.op = "Rot"
    <3>1. Arity(instr.op) = 3
      BY <2>1, Arities
    <3> QED
      BY <1>2, <2>1, <3>1 DEF Shuffled
  <2>2. CASE instr.op \in {"Swap", "Over", "Nip", "Tuck", "Drop2", "Dup2"}
    <3>1. Arity(instr.op) = 2
      BY <2>2, Arities DEF TakesTwo
    <3> QED
      BY <1>2, <2>2, <3>1 DEF Shuffled
  <2>3. CASE instr.op \in {"Dup", "Drop"}
    <3>1. Arity(instr.op) = 1
      BY <2>3, Arities DEF TakesOne
    <3> QED
      BY <1>2, <2>3, <3>1 DEF Shuffled
  <2> QED
    BY <1>1, <2>1, <2>2, <2>3 DEF Executing, ShuffleOps
<1> QED
  BY <1>3, ComputeType DEF Shuffle

LEMMA UnaryType ==
  ASSUME TypeOK, CanariesIntact, Unary \/ AbsInRange
  PROVE  TypeOK' /\ CanariesIntact' /\ OperandsOnly
<1>1. Executing(UnaryOps) \/ Executing({"Abs"})
  BY DEF Unary, AbsInRange, Compute
<1>2. Arity(instr.op) = 1
  BY <1>1, Arities DEF Executing, TakesOne
<1>3. Arg(1) \in Val
  BY <1>1, <1>2, OperandsType
<1>4. UnaryResult(instr.op, Arg(1)) \in Val
  BY <1>3, WrapType, SmallWords DEF UnaryResult, Flag
<1>5. Arg(1) # -Half => Magnitude(Arg(1)) \in Val
  BY <1>3, Positive DEF Magnitude, Val
<1> QED
  BY <1>4, <1>5, ComputeOneType DEF Unary, AbsInRange

LEMMA AbsOverflowType ==
  ASSUME TypeOK, CanariesIntact, AbsOverflow
  PROVE  TypeOK' /\ CanariesIntact' /\ OperandsOnly
<1>1. CASE OverflowChecks
  <2>1. DataStep
    BY <1>1, PopType, SmallWords
    DEF AbsOverflow, Executing, Crash, DataStep, Status, Nop, Instruction, CodeOps
  <2>2. OperandsOnly
    BY <1>1, PopOnly DEF AbsOverflow, Executing
  <2> QED
    BY <2>1, <2>2, KeepsType, ControlFromParts DEF AbsOverflow, TypeOK, DataStep
<1>2. CASE ~OverflowChecks
  <2>1. <<-Half>> \in Seq(Val)
    BY SmallWords
  <2>2. DataStep /\ OperandsOnly
    BY <1>2, <2>1, PopPushType DEF AbsOverflow, Executing
  <2> QED
    BY <2>2, KeepsType, ControlFromParts DEF AbsOverflow, TypeOK, DataStep
<1> QED
  BY <1>1, <1>2

LEMMA PairType ==
  ASSUME TypeOK, CanariesIntact, Extreme \/ BitLogic \/ Shift \/ Compare
  PROVE  TypeOK' /\ CanariesIntact' /\ OperandsOnly
<1>1. \E ops \in {ExtremeOps, BitOps, ShiftOps, CompareOps} : Executing(ops)
  BY DEF Extreme, BitLogic, Shift, Compare, Compute
<1>2. Arity(instr.op) = 2
  BY <1>1, Arities DEF Executing, TakesTwo
<1>3. Arg(1) \in Val /\ Arg(2) \in Val
  BY <1>1, <1>2, OperandsType
<1>4. CASE Extreme
  BY <1>3, <1>4, ComputeOneType DEF Extreme
<1>5. CASE BitLogic
  BY <1>3, <1>5, BitsOfWord, ComputeOneType DEF BitLogic
<1>6. CASE Shift
  <2> DEFINE a == Arg(1)
             b == Arg(2)
             H == Half
             C == 2^CountBits
  <2>1. a \in Int /\ b \in Int /\ H \in Nat \ {0} /\ C \in Nat \ {0}
    BY <1>3, SmallWords, Positive
  <2>2. ShiftCount(Arg(1)) = Least(a % C, Width - 1)
    BY DEF ShiftCount
  <2> HIDE DEF a, b, H, C
  <2>3. ShiftCount(Arg(1)) \in 0 .. Width
    BY <2>1, <2>2, WordAssumption DEF Least
  <2> DEFINE power == 2^ShiftCount(Arg(1))
  <2>4. power \in Nat \ {0}
    BY <2>3, Positive
  <2> HIDE DEF power
  <2>5. b * power \in Int /\ (b % (2 * H)) \div power \in Int
    BY <2>1, <2>4
  <2>6. Wrap(b * power) \in Val /\ Wrap((b % (2 * H)) \div power) \in Val
    BY <2>5, WrapType
  <2>7. Compute(ShiftOps, <<IF instr.op = "LShift"
                            THEN Wrap(b * power)
                            ELSE Wrap((b % (2 * H)) \div power)>>)
    BY <1>6 DEF Shift, b, H, power
  <2> QED
    BY <2>6, <2>7, ComputeOneType
<1>7. CASE Compare
  <2>1. Compared(instr.op, Arg(2), Arg(1)) \in Val
    BY SmallWords DEF Compared, Flag
  <2> QED
    BY <1>7, <2>1, ComputeOneType DEF Compare
<1> QED
  BY <1>4, <1>5, <1>6, <1>7

LEMMA NullaryType ==
  ASSUME TypeOK, CanariesIntact, Push \/ Constant \/ Output \/ Noop
  PROVE  TypeOK' /\ CanariesIntact' /\ OperandsOnly
<1>1. CASE Push
  <2>1. Wrap(instr.data) \in Val
    BY WrapType DEF TypeOK, ControlType, Instruction
  <2> QED
    BY <1>1, <2>1, ComputeOneType DEF Push
<1>2. CASE Constant
  <2>1. d_depth \in Int /\ here \in Int /\ Blank \in Int
    BY WordAssumption, StackAssumption, MemoryAssumption
    DEF TypeOK, StoreType, DataType
  <2>2. Wrap(d_depth) \in Val /\ Wrap(here) \in Val /\ Wrap(Blank) \in Val
    BY <2>1, WrapType
  <2>3. Wrap(CASE instr.op = "Depth" -> d_depth
               [] instr.op = "BL"    -> Blank
               [] OTHER              -> here) \in Val
    BY <2>2
  <2> QED
    BY <1>2, <2>3, ComputeOneType DEF Constant
<1>3. CASE Output \/ Noop
  <2>1. <<>> \in Seq(Val)
    OBVIOUS
  <2> QED
    BY <1>3, <2>1, ComputeType DEF Output, Noop
<1> QED
  BY <1>1, <1>2, <1>3

LEMMA PickType ==
  ASSUME TypeOK, CanariesIntact, Pick
  PROVE  TypeOK' /\ CanariesIntact' /\ OperandsOnly
<1>1. Arg(1) \in 0 .. (d_depth - 2)
  BY DEF Pick, TypeOK, DataType
<1>2. d_depth - 1 - Arg(1) \in 1 .. (StackSlots - 2)
  BY <1>1, StackAssumption DEF TypeOK, DataType
<1>3. d_stack[d_depth - 1 - Arg(1)] \in Val
  BY <1>2 DEF TypeOK, DataType
<1> QED
  BY <1>3, ComputeOneType DEF Pick

LEMMA RollType ==
  ASSUME TypeOK, CanariesIntact, Roll
  PROVE  TypeOK' /\ CanariesIntact'
<1> DEFINE left == d_depth - 1
           target == left - Arg(1)
<1>1. Executing({"Roll"})
  BY DEF Roll
<1>2. Arity(instr.op) = 1
  BY <1>1, Arities DEF Executing, TakesOne
<1>3. left \in 0 .. (PushLimit - 1)
  BY <1>1, <1>2, StackAssumption DEF Executing, TypeOK, DataType
<1>4. Arg(1) = 0 \/ Arg(1) \in 0 .. (left - 1)
  BY DEF Roll
<1>5. target \in 0 .. left /\ (left > 0 => target > 0)
  BY <1>3, <1>4, StackAssumption
<1>6. /\ d_depth' = left
      /\ d_stack' = [s \in Slots |->
                       CASE s \in target .. (left - 1) -> d_stack[s + 1]
                         [] s = left                   -> d_stack[target]
                         [] OTHER                      -> d_stack[s]]
      /\ Finish("Done")
      /\ UNCHANGED <<store, frames, ip, caller>>
  BY DEF Roll
<1> HIDE DEF left, target
<1>7. DataType' /\ CanariesIntact'
  <2>1. \A s \in Slots : d_stack'[s] =
          IF s \in target .. (left - 1) THEN d_stack[s + 1]
          ELSE IF s = left THEN d_stack[target] ELSE d_stack[s]
    BY <1>3, <1>5, <1>6
  <2>2. CASE left = 0
    <3>1. \A s \in Slots : d_stack'[s] = d_stack[s]
      BY <1>3, <1>5, <2>1, <2>2, StackAssumption DEF Slots
    <3>2. d_stack \in [Slots -> Val \cup {CANARY_VALUE}]
      BY DEF TypeOK, DataType
    <3>3. d_stack' = d_stack
      BY <1>6, <3>1, <3>2
    <3>4. d_depth' \in 0 .. PushLimit
      BY <1>3, <1>6, StackAssumption
    <3> QED
      BY <3>3, <3>4 DEF TypeOK, DataType, CanariesIntact
  <2>3. CASE left > 0
    <3>1. target \in 1 .. left /\ left \in 1 .. (StackSlots - 3)
      BY <1>3, <1>5, <2>3, StackAssumption
    <3>2. \A s \in 1 .. (StackSlots - 2) : d_stack'[s] \in Val
      BY <2>1, <3>1, StackAssumption DEF TypeOK, DataType, Slots
    <3>3. d_stack'[0] = d_stack[0]
      BY <2>1, <3>1, StackAssumption DEF Slots
    <3>4. d_stack'[StackSlots - 1] = d_stack[StackSlots - 1]
      BY <2>1, <3>1, StackAssumption DEF Slots
    <3>5. \A s \in Slots : d_stack'[s] \in Val \cup {CANARY_VALUE}
      BY <3>2, <3>3, <3>4, StackAssumption DEF CanariesIntact, Slots
    <3> QED
      BY <1>3, <1>6, <3>2, <3>3, <3>4, <3>5, StackAssumption
      DEF DataType, CanariesIntact
  <2> QED
    BY <1>3, <2>2, <2>3, StackAssumption
<1>8. DataStep
  BY <1>6, <1>7, FinishType DEF DataStep, Status
<1> QED
  BY <1>6, <1>8, KeepsType, ControlFromParts DEF TypeOK, DataStep

-----------------------------------------------------------------------------
(***************************************************************************)
(* The head of a step, and the instructions that give up.                  *)
(***************************************************************************)
LEMMA RefusalsType ==
  ASSUME TypeOK, CanariesIntact,
         \/ PickTooDeep \/ RollTooDeep \/ EmptyR \/ NotInLoop
         \/ ExecuteNoWord \/ OutOfMemory \/ CommaNoRoom
  PROVE  TypeOK' /\ CanariesIntact'
<1>1. \E ops \in {{"Pick"}, {"Roll"}, {"FromR", "RFetch"}, {"Loop", "PLoop"},
                  {"I"}, {"J"}, {"Execute"}, {"Fetch", "Store"},
                  {"FetchC", "StoreC"}, {"Comma"}} : Refuse(ops)
  BY DEF PickTooDeep, RollTooDeep, EmptyR, NotInLoop, ExecuteNoWord,
         OutOfMemory, CommaNoRoom
<1> QED
  BY <1>1, RefuseType

LEMMA FailuresType ==
  ASSUME TypeOK, CanariesIntact, DivideByZero \/ Underflow
  PROVE  TypeOK' /\ CanariesIntact'
<1>1. d_depth' \in 0 .. PushLimit /\ d_stack' = d_stack
  <2>1. CASE DivideByZero
    <3>1. Arity(instr.op) = 2
      BY <2>1, Arities DEF DivideByZero, Executing, TakesTwo
    <3> QED
      BY <2>1, <3>1, StackAssumption DEF DivideByZero, Executing, TypeOK, DataType
  <2>2. CASE Underflow
    BY <2>2, StackAssumption DEF Underflow
  <2> QED
    BY <2>1, <2>2
<1>2. Finish("Err") /\ UNCHANGED <<store, frames, ip, caller>>
  BY DEF DivideByZero, Underflow
<1>3. DataStep
  BY <1>1, <1>2, FinishType DEF DataStep, TypeOK, DataType, CanariesIntact, Status
<1> QED
  BY <1>2, <1>3, KeepsType, ControlFromParts DEF TypeOK, DataStep

LEMMA HeadType ==
  ASSUME TypeOK, CanariesIntact, PastEnd \/ Decode \/ Exhaust
  PROVE  TypeOK' /\ CanariesIntact'
<1>1. StoreType' /\ DataType' /\ FramesType' /\ CanariesIntact'
  BY KeepsType DEF PastEnd, Decode, Exhaust, store, data, frames
<1>2. CASE PastEnd
  BY <1>1, <1>2, FinishType, KeepsType, ControlFromParts
  DEF PastEnd, DataStep, TypeOK, Status
<1>3. CASE Decode
  <2>1. ip + 1 \in 1 .. Len(code)
    BY <1>3, LenProperties DEF Decode, InCode, TypeOK, StoreType, ControlType
  <2>2. code[ip + 1] \in Instruction
    BY <2>1, ElementOfSeq DEF TypeOK, StoreType
  <2> QED
    BY <1>1, <1>3, <2>1, <2>2 DEF Decode, TypeOK, ControlType
<1>4. CASE Exhaust
  <2>1. /\ at' = "crash" /\ result' = [status |-> "Exhausted", code |-> 0]
        /\ instr' = Nop /\ UNCHANGED <<ip, caller>>
    BY <1>4 DEF Exhaust, Crash
  <2> QED
    BY <1>1, <2>1, SmallWords
    DEF TypeOK, ControlType, Status, Nop, Instruction, CodeOps, caller
<1> QED
  BY <1>2, <1>3, <1>4

-----------------------------------------------------------------------------
(***************************************************************************)
(* The float, return and loop stacks.                                      *)
(***************************************************************************)
LEMMA PrefixType ==
  ASSUME NEW S, NEW s \in Seq(S), NEW n \in 0 .. Len(s)
  PROVE  /\ SubSeq(s, 1, n) \in Seq(S)
         /\ Len(SubSeq(s, 1, n)) = n
         /\ \A i \in 1 .. n : SubSeq(s, 1, n)[i] = s[i]
<1>1. \A i \in 1 .. n : s[i] \in S
  BY ElementOfSeq
<1>2. n \in Int
  BY LenProperties
<1> QED
  BY <1>1, <1>2, SubSeqProperties

LEMMA LastType ==
  ASSUME NEW S, NEW s \in Seq(S), s # <<>>
  PROVE  /\ Last(s) \in S
         /\ Front(s) \in Seq(S)
         /\ Len(Front(s)) = Len(s) - 1
         /\ \A i \in 1 .. (Len(s) - 1) : Front(s)[i] = s[i]
<1>1. Len(s) \in Nat \ {0}
  BY EmptySeq
<1>2. Len(s) - 1 \in 0 .. Len(s)
  BY <1>1
<1>3. Last(s) \in S
  BY <1>1, ElementOfSeq DEF Last
<1> QED
  BY <1>2, <1>3, PrefixType DEF Front

LEMMA PushFType ==
  ASSUME TypeOK, CanariesIntact, PushF
  PROVE  TypeOK' /\ CanariesIntact'
<1>1. UNCHANGED store /\ UNCHANGED data /\ UNCHANGED <<ip, caller>>
  BY DEF PushF
<1>2. FramesType'
  BY StackAssumption DEF PushF, TypeOK, FramesType
<1>3. Finish("Done") \/ Finish("Err")
  BY DEF PushF
<1>4. DataStep
  BY <1>1, <1>3, KeepsType, FinishType DEF DataStep, Status
<1> QED
  BY <1>1, <1>2, <1>4, KeepsType, ControlFromParts DEF TypeOK, DataStep

LEMMA ToRType ==
  ASSUME TypeOK, CanariesIntact, ToR
  PROVE  TypeOK' /\ CanariesIntact'
<1>1. Executing({"ToR"}) /\ Pop /\ UNCHANGED store /\ UNCHANGED <<ip, caller>>
  BY DEF ToR
<1>2. Arity(instr.op) = 1
  BY <1>1, Arities DEF Executing, TakesOne
<1>3. Arg(1) \in Val
  BY <1>1, <1>2, OperandsType
<1>4. r_stack' \in Seq(Val) /\ Len(r_stack') <= RLimit
  <2>1. CASE Len(r_stack) < RLimit
    <3>1. r_stack \in Seq(Val) /\ r_stack' = Append(r_stack, Arg(1))
      BY <2>1 DEF ToR, TypeOK, FramesType
    <3>2. r_stack' \in Seq(Val) /\ Len(r_stack') = Len(r_stack) + 1
      BY <1>3, <3>1, AppendProperties
    <3> QED
      BY <2>1, <3>1, <3>2, LenProperties, StackAssumption
  <2>2. CASE ~(Len(r_stack) < RLimit)
    BY <2>2 DEF ToR, TypeOK, FramesType
  <2> QED
    BY <2>1, <2>2
<1>5. FramesType'
  BY <1>4 DEF ToR, TypeOK, FramesType
<1>6. Finish("Done") \/ Finish("Err")
  BY DEF ToR
<1>7. DataStep
  BY <1>1, <1>6, PopType, FinishType DEF Executing, DataStep, Status
<1> QED
  BY <1>1, <1>5, <1>7, KeepsType, ControlFromParts DEF TypeOK, DataStep

LEMMA FromRType ==
  ASSUME TypeOK, CanariesIntact, FromR
  PROVE  TypeOK' /\ CanariesIntact' /\ OperandsOnly
<1>1. /\ r_stack # <<>> /\ r_stack' = Front(r_stack)
      /\ Executing({"FromR"}) /\ PopPush(<<Last(r_stack)>>)
      /\ UNCHANGED store /\ UNCHANGED <<ip, caller>>
      /\ UNCHANGED <<f_depth, c_stack, loop_stack, exception_stack>>
  BY DEF FromR
<1>2. Last(r_stack) \in Val /\ r_stack' \in Seq(Val) /\ Len(r_stack') <= RLimit
  <2>1. r_stack \in Seq(Val) /\ Len(r_stack) <= RLimit
    BY DEF TypeOK, FramesType
  <2>2. Last(r_stack) \in Val /\ r_stack' \in Seq(Val) /\ Len(r_stack') = Len(r_stack) - 1
    BY <1>1, <2>1, LastType
  <2> QED
    BY <2>1, <2>2, LenProperties, StackAssumption
<1>3. <<Last(r_stack)>> \in Seq(Val)
  BY <1>2
<1>4. DataStep /\ OperandsOnly
  BY <1>1, <1>3, PopPushType DEF Executing
<1>5. FramesType'
  BY <1>1, <1>2 DEF TypeOK, FramesType
<1> QED
  BY <1>1, <1>4, <1>5, KeepsType, ControlFromParts DEF TypeOK, DataStep

LEMMA IndexType ==
  ASSUME TypeOK, CanariesIntact, RFetch \/ I \/ J
  PROVE  TypeOK' /\ CanariesIntact' /\ OperandsOnly
<1>1. CASE RFetch
  BY <1>1, LastType, ComputeOneType DEF RFetch, TypeOK, FramesType
<1>2. CASE I
  <2>1. loop_stack # <<>>
    BY <1>2, EmptySeq DEF I
  <2> QED
    BY <1>2, <2>1, LastType, ComputeOneType DEF I, TypeOK, FramesType
<1>3. CASE J
  <2>1. loop_stack[Len(loop_stack) - 2] \in Val
    BY <1>3, ElementOfSeq, LenProperties DEF J, TypeOK, FramesType
  <2> QED
    BY <1>3, <2>1, ComputeOneType DEF J
<1> QED
  BY <1>1, <1>2, <1>3

LEMMA DoType ==
  ASSUME TypeOK, CanariesIntact, Do
  PROVE  TypeOK' /\ CanariesIntact'
<1>1. /\ Executing({"Do"}) /\ Pop /\ Finish("Done")
      /\ UNCHANGED store /\ UNCHANGED <<ip, caller>>
  BY DEF Do
<1>2. Arity(instr.op) = 2
  BY <1>1, Arities DEF Executing, TakesTwo
<1>3. Arg(1) \in Val /\ Arg(2) \in Val
  BY <1>1, <1>2, OperandsType
<1>4. <<Arg(2), Arg(1)>> \in Seq(Val)
  BY <1>3
<1>5. loop_stack' \in Seq(Val)
  BY <1>4, ConcatProperties DEF Do, TypeOK, FramesType
<1>6. FramesType'
  BY <1>5 DEF Do, TypeOK, FramesType
<1>7. DataStep
  BY <1>1, PopType, FinishType DEF Executing, DataStep, Status
<1> QED
  BY <1>1, <1>6, <1>7, KeepsType, ControlFromParts DEF TypeOK, DataStep

LEMMA LoopEdgeType ==
  ASSUME TypeOK, Len(loop_stack) >= 2, NEW again, NEW next \in Val,
         LoopEdge(again, next)
  PROVE  loop_stack' \in Seq(Val) /\ ip' \in Int
<1>1. loop_stack \in Seq(Val) /\ ip \in Int /\ instr.data \in Int
  BY DEF TypeOK, FramesType, ControlType, Instruction
<1>2. Len(loop_stack) \in Nat
  BY <1>1, LenProperties
<1>3. CASE again
  BY <1>1, <1>2, <1>3, ExceptSeq DEF LoopEdge
<1>4. CASE ~again
  BY <1>1, <1>2, <1>4, PrefixType DEF LoopEdge
<1> QED
  BY <1>3, <1>4

LEMMA LoopEdgeLength ==
  ASSUME TypeOK, Len(loop_stack) >= 2, NEW again, NEW next, LoopEdge(again, next)
  PROVE  Len(loop_stack') \in {Len(loop_stack), Len(loop_stack) - 2}
<1>1. loop_stack \in Seq(Val) /\ Len(loop_stack) \in Nat
  BY LenProperties DEF TypeOK, FramesType
<1>2. CASE again
  <2>1. loop_stack \in Seq(Val \cup {next})
    BY <1>1, SeqMonotonic
  <2> QED
    BY <1>1, <1>2, <2>1, ExceptSeq DEF LoopEdge
<1>3. CASE ~again
  BY <1>1, <1>3, PrefixType DEF LoopEdge
<1> QED
  BY <1>2, <1>3

LEMMA LoopsType ==
  ASSUME TypeOK, CanariesIntact, Loop \/ PLoop
  PROVE  TypeOK' /\ CanariesIntact'
<1>1. Len(loop_stack) >= 2
  BY DEF Loop, PLoop
<1>2. loop_stack # <<>>
  BY <1>1, EmptySeq
<1>3. Last(loop_stack) \in Val
  BY <1>2, LastType DEF TypeOK, FramesType
<1>4. loop_stack' \in Seq(Val) /\ ip' \in Int /\ DataStep
  <2>1. CASE Loop
    <3>1. LoopNext(1) \in Val
      BY <1>3, SumType DEF LoopNext
    <3>2. loop_stack' \in Seq(Val) /\ ip' \in Int
      BY <1>1, <2>1, <3>1, LoopEdgeType DEF Loop
    <3>3. DataStep
      BY <2>1, KeepsType, FinishType DEF Loop, DataStep, Status
    <3> QED
      BY <3>2, <3>3
  <2>2. CASE PLoop
    <3>1. Executing({"PLoop"}) /\ Pop /\ Finish("Done")
      BY <2>2 DEF PLoop
    <3>2. Arity(instr.op) = 1
      BY <3>1, Arities DEF Executing, TakesOne
    <3>3. Arg(1) \in Val
      BY <3>1, <3>2, OperandsType
    <3>4. LoopNext(Arg(1)) \in Val
      BY <1>3, <3>3, SmallWords, SumType DEF LoopNext
    <3>5. loop_stack' \in Seq(Val) /\ ip' \in Int
      BY <1>1, <2>2, <3>4, LoopEdgeType DEF PLoop
    <3>6. DataStep
      BY <3>1, PopType, FinishType DEF Executing, DataStep, Status
    <3> QED
      BY <3>5, <3>6
  <2> QED
    BY <2>1, <2>2
<1>5. /\ UNCHANGED store /\ UNCHANGED caller
      /\ UNCHANGED <<f_depth, r_stack, c_stack, exception_stack>>
  BY DEF Loop, PLoop
<1>6. FramesType'
  BY <1>4, <1>5 DEF TypeOK, FramesType
<1>7. ControlType'
  BY <1>4, <1>5 DEF TypeOK, ControlType, DataStep, caller
<1> QED
  BY <1>4, <1>5, <1>6, <1>7, KeepsType DEF TypeOK, DataStep

-----------------------------------------------------------------------------
(***************************************************************************)
(* Data space.                                                             *)
(***************************************************************************)
LEMMA WithCellType ==
  ASSUME TypeOK, NEW a \in Int, NEW v \in Val
  PROVE  WithCell(a, v) \in [Addr -> Byte]
<1> SUFFICES ASSUME NEW x \in Addr
             PROVE  (IF x \in a .. (a + CellBytes - 1) THEN Bytes(v)[x - a]
                                                       ELSE mem[x]) \in Byte
  BY DEF WithCell
<1>1. CASE x \in a .. (a + CellBytes - 1)
  <2>1. x - a \in 0 .. (CellBytes - 1)
    BY <1>1, WordAssumption, MemoryAssumption DEF Addr
  <2> QED
    BY <1>1, <2>1, BytesType
<1>2. CASE x \notin a .. (a + CellBytes - 1)
  BY <1>2 DEF TypeOK, StoreType
<1> QED
  BY <1>1, <1>2

LEMMA CellAtType ==
  ASSUME TypeOK, NEW a \in Int, CellFits(a)
  PROVE  CellAt(a) \in Val
<1> DEFINE b == [i \in 0 .. (CellBytes - 1) |-> mem[a + i]]
<1>1. b \in [0 .. (CellBytes - 1) -> Byte]
  <2> SUFFICES ASSUME NEW i \in 0 .. (CellBytes - 1)
               PROVE  mem[a + i] \in Byte
    OBVIOUS
  <2>1. a + i \in Addr
    BY WordAssumption, MemoryAssumption DEF CellFits, Addr
  <2> QED
    BY <2>1 DEF TypeOK, StoreType
<1>2. \E v \in Val : Bytes(v) = b
  BY <1>1, RepresentationAssumption
<1> QED
  BY <1>2 DEF CellAt

LEMMA ReadsType ==
  ASSUME TypeOK, CanariesIntact, FetchCell \/ FetchC
  PROVE  TypeOK' /\ CanariesIntact' /\ OperandsOnly
<1>1. CASE FetchCell
  <2>1. Executing({"Fetch"}) /\ CellFits(Arg(1))
    BY <1>1 DEF FetchCell
  <2>2. Arity(instr.op) = 1
    BY <2>1, Arities DEF Executing, TakesOne
  <2>3. Arg(1) \in Val
    BY <2>1, <2>2, OperandsType
  <2>4. CellAt(Arg(1)) \in Val
    BY <2>1, <2>3, SmallWords, CellAtType
  <2> QED
    BY <1>1, <2>4, ComputeOneType DEF FetchCell
<1>2. CASE FetchC
  <2>1. mem[Arg(1)] \in Int
    BY <1>2, Positive DEF FetchC, TypeOK, StoreType, Byte
  <2>2. Wrap(mem[Arg(1)]) \in Val
    BY <2>1, WrapType
  <2> QED
    BY <1>2, <2>2, ComputeOneType DEF FetchC
<1> QED
  BY <1>1, <1>2

LEMMA WritesType ==
  ASSUME TypeOK, CanariesIntact, StoreCell \/ StoreC
  PROVE  TypeOK' /\ CanariesIntact'
<1>1. /\ Executing({"Store"}) \/ Executing({"StoreC"})
      /\ Pop /\ Finish("Done")
      /\ UNCHANGED <<code, dict, here>> /\ UNCHANGED frames
      /\ UNCHANGED <<ip, caller>>
  BY DEF StoreCell, StoreC
<1>2. Arity(instr.op) = 2
  BY <1>1, Arities DEF Executing, TakesTwo
<1>3. Arg(1) \in Val /\ Arg(2) \in Val
  BY <1>1, <1>2, OperandsType
<1>4. mem' \in [Addr -> Byte]
  <2>1. CASE StoreCell
    BY <1>3, <2>1, SmallWords, WithCellType DEF StoreCell
  <2>2. CASE StoreC
    <3>1. Arg(2) % 2^ByteBits \in Byte
      BY <1>3, SmallWords, Positive, ModType DEF Byte
    <3> QED
      BY <2>2, <3>1 DEF StoreC, TypeOK, StoreType
  <2> QED
    BY <2>1, <2>2
<1>5. StoreType'
  BY <1>1, <1>4 DEF TypeOK, StoreType
<1>6. DataStep
  BY <1>1, PopType, FinishType DEF Executing, DataStep, Status
<1> QED
  BY <1>1, <1>5, <1>6, KeepsType, ControlFromParts DEF TypeOK, DataStep

LEMMA AlignedType ==
  ASSUME NEW h \in Nat
  PROVE  Aligned(h) \in h .. (h + CellBytes - 1)
<1> DEFINE C == CellBytes
<1>1. C \in Nat \ {0}
  BY WordAssumption
<1> HIDE DEF C
<1>2. (C - (h % C)) % C \in 0 .. (C - 1)
  BY <1>1
<1> QED
  BY <1>1, <1>2 DEF Aligned, C

LEMMA CommaType ==
  ASSUME TypeOK, CanariesIntact, Comma
  PROVE  TypeOK' /\ CanariesIntact'
<1>1. /\ Executing({"Comma"}) /\ Pop /\ CellFits(here)
      /\ mem' = WithCell(here, Arg(1))
      /\ \/ here' = here /\ Finish("Err")
         \/ /\ CellFits(Aligned(here))
            /\ here' = Aligned(here) + CellBytes /\ Finish("Done")
      /\ UNCHANGED <<code, dict>> /\ UNCHANGED frames /\ UNCHANGED <<ip, caller>>
  BY DEF Comma
<1>2. Arity(instr.op) = 1
  BY <1>1, Arities DEF Executing, TakesOne
<1>3. Arg(1) \in Val
  BY <1>1, <1>2, OperandsType
<1>4. here \in Nat
  BY MemoryAssumption DEF TypeOK, StoreType
<1>5. mem' \in [Addr -> Byte]
  BY <1>1, <1>3, <1>4, WithCellType
<1>6. here' \in 0 .. MemSize
  <2>1. Aligned(here) \in Nat
    BY <1>4, AlignedType, WordAssumption
  <2>2. CellFits(Aligned(here)) => Aligned(here) + CellBytes \in 0 .. MemSize
    BY <2>1, WordAssumption, MemoryAssumption DEF CellFits
  <2> QED
    BY <1>1, <2>2 DEF TypeOK, StoreType
<1>7. StoreType'
  BY <1>1, <1>5, <1>6 DEF TypeOK, StoreType
<1>8. DataStep
  BY <1>1, PopType, FinishType DEF Executing, DataStep, Status
<1> QED
  BY <1>1, <1>7, <1>8, KeepsType, ControlFromParts DEF TypeOK, DataStep

LEMMA CrashType ==
  ASSUME NEW status \in Status, Crash(status)
  PROVE  /\ at' = "crash"
         /\ instr' \in Instruction /\ result' \in [status : Status, code : Val]
  BY SmallWords DEF Crash, Nop, Instruction, CodeOps

LEMMA AllotType ==
  ASSUME TypeOK, CanariesIntact, Allot
  PROVE  TypeOK' /\ CanariesIntact'
<1> DEFINE end == Aligned(here) + Arg(1)
<1>1. /\ Executing({"Allot"}) /\ Pop
      /\ \/ here' = here /\ (Finish("Err") \/ Crash("Panic"))
         \/ end \in 0 .. MemSize /\ here' = end /\ Finish("Done")
      /\ UNCHANGED <<code, dict, mem>> /\ UNCHANGED frames
      /\ UNCHANGED <<ip, caller>>
  BY DEF Allot
<1> HIDE DEF end
<1>2. StoreType'
  BY <1>1 DEF TypeOK, StoreType
<1>3. DataStep
  BY <1>1, PopType, FinishType, CrashType DEF Executing, DataStep, Status
<1> QED
  BY <1>1, <1>2, <1>3, KeepsType, ControlFromParts DEF TypeOK, DataStep

LEMMA AddressWrapsType ==
  ASSUME TypeOK, CanariesIntact, AddressWraps
  PROVE  TypeOK' /\ CanariesIntact'
<1>1. /\ Pop /\ Crash("Panic") /\ d_depth >= Arity(instr.op)
      /\ UNCHANGED store /\ UNCHANGED frames /\ UNCHANGED <<ip, caller>>
  BY DEF AddressWraps, Executing
<1>2. DataStep
  BY <1>1, PopType, CrashType DEF DataStep, Status
<1> QED
  BY <1>1, <1>2, KeepsType, ControlFromParts DEF TypeOK, DataStep

LEMMA CompileCommaType ==
  ASSUME TypeOK, CanariesIntact, CompileComma
  PROVE  TypeOK' /\ CanariesIntact'
<1>1. /\ Executing({"CompileComma"}) /\ Pop /\ Finish("Done")
      /\ code' = Append(code, [op |-> "Call", data |-> Arg(1)])
      /\ UNCHANGED <<dict, mem, here>> /\ UNCHANGED frames
      /\ UNCHANGED <<ip, caller>>
  BY DEF CompileComma
<1>2. Arity(instr.op) = 1
  BY <1>1, Arities DEF Executing, TakesOne
<1>3. Arg(1) \in Val
  BY <1>1, <1>2, OperandsType
<1>4. [op |-> "Call", data |-> Arg(1)] \in Instruction
  BY <1>3, SmallWords DEF Instruction, CodeOps
<1>5. code' \in Seq(Instruction)
  BY <1>1, <1>4, AppendProperties DEF TypeOK, StoreType
<1>6. StoreType'
  BY <1>1, <1>5 DEF TypeOK, StoreType
<1>7. DataStep
  BY <1>1, PopType, FinishType DEF Executing, DataStep, Status
<1> QED
  BY <1>1, <1>6, <1>7, KeepsType, ControlFromParts DEF TypeOK, DataStep

-----------------------------------------------------------------------------
(***************************************************************************)
(* Jumps, words, exceptions and statuses.                                  *)
(***************************************************************************)
LEMMA JumpsType ==
  ASSUME TypeOK, CanariesIntact, Jump \/ JZ
  PROVE  TypeOK' /\ CanariesIntact'
<1>1. DataType' /\ CanariesIntact'
  BY KeepsType, PopType DEF Jump, JZ, Executing
<1>2. ip' \in Int /\ (Finish("Done") \/ Finish("Err"))
  BY DEF Jump, JZ, GoTo, Target, TypeOK, ControlType, Instruction
<1>3. UNCHANGED store /\ UNCHANGED frames /\ UNCHANGED caller
  BY DEF Jump, JZ
<1>4. DataStep
  BY <1>1, <1>2, FinishType DEF DataStep, Status
<1>5. ControlType'
  BY <1>2, <1>3, <1>4, ControlFromParts DEF TypeOK, ControlType, caller
<1> QED
  BY <1>1, <1>3, <1>5, KeepsType DEF TypeOK

LEMMA CallType ==
  ASSUME TypeOK, CanariesIntact, Call
  PROVE  TypeOK' /\ CanariesIntact'
<1> DEFINE entry == dict[instr.data + 1]
<1>1. /\ IsWord(instr.data) /\ c_stack' = Append(c_stack, ip)
      /\ ip' = (IF entry.kind = "word" THEN entry.addr ELSE ip)
      /\ Finish("Done")
      /\ UNCHANGED store /\ UNCHANGED data /\ UNCHANGED caller
      /\ UNCHANGED <<f_depth, r_stack, loop_stack, exception_stack>>
  BY DEF Call
<1>2. instr.data + 1 \in 1 .. Len(dict)
  BY <1>1, LenProperties DEF IsWord, TypeOK, StoreType
<1>3. entry.addr \in Nat
  <2>1. dict[instr.data + 1] \in Entry
    BY <1>2, ElementOfSeq DEF TypeOK, StoreType
  <2> QED
    BY <2>1 DEF Entry
<1>4. ip' \in Int
  BY <1>1, <1>3 DEF TypeOK, ControlType
<1>5. FramesType'
  BY <1>1, AppendProperties DEF TypeOK, FramesType, ControlType
<1>6. DataStep
  BY <1>1, KeepsType, FinishType DEF DataStep, Status
<1>7. ControlType'
  BY <1>1, <1>4, <1>6, ControlFromParts DEF TypeOK, ControlType, caller
<1> QED
  BY <1>1, <1>5, <1>6, <1>7, KeepsType DEF TypeOK, DataStep

LEMMA CallNoWordType ==
  ASSUME TypeOK, CanariesIntact, CallNoWord
  PROVE  TypeOK' /\ CanariesIntact'
<1>1. /\ Crash("Panic") /\ UNCHANGED store /\ UNCHANGED data
      /\ UNCHANGED frames /\ UNCHANGED <<ip, caller>>
  BY DEF CallNoWord
<1>2. DataStep
  BY <1>1, KeepsType, CrashType DEF DataStep, Status
<1> QED
  BY <1>1, <1>2, KeepsType, ControlFromParts DEF TypeOK, DataStep

LEMMA RetType ==
  ASSUME TypeOK, CanariesIntact, Ret
  PROVE  TypeOK' /\ CanariesIntact'
<1>1. /\ c_stack # <<>> /\ ip' = Last(c_stack) /\ c_stack' = Front(c_stack)
      /\ Finish("Done")
      /\ UNCHANGED store /\ UNCHANGED data /\ UNCHANGED caller
      /\ UNCHANGED <<f_depth, r_stack, loop_stack, exception_stack>>
  BY DEF Ret
<1>2. ip' \in Int /\ c_stack' \in Seq(Int)
  BY <1>1, LastType DEF TypeOK, FramesType
<1>3. FramesType'
  BY <1>1, <1>2 DEF TypeOK, FramesType
<1>4. DataStep
  BY <1>1, KeepsType, FinishType DEF DataStep, Status
<1>5. ControlType'
  BY <1>1, <1>2, <1>4, ControlFromParts DEF TypeOK, ControlType, caller
<1> QED
  BY <1>1, <1>3, <1>4, <1>5, KeepsType DEF TypeOK, DataStep

LEMMA EnterWordType ==
  ASSUME TypeOK, NEW entry \in Entry, EnterWord(entry)
  PROVE  /\ host' \in Seq(HostFrame) /\ ip' \in Int
         /\ at' \in {"step", "exec"} /\ instr' \in Instruction
<1> DEFINE frame == [kind |-> entry.kind, old_ip |-> ip, old_c_depth |-> Len(c_stack)]
<1>1. Len(c_stack) \in Nat
  BY LenProperties DEF TypeOK, FramesType
<1>2. frame \in HostFrame
  BY <1>1 DEF Entry, HostFrame, TypeOK, ControlType
<1>3. host' = Append(host, frame)
  BY DEF EnterWord
<1> HIDE DEF frame
<1>4. host' \in Seq(HostFrame)
  BY <1>2, <1>3, AppendProperties DEF TypeOK, ControlType
<1>5. [op |-> entry.op, data |-> 0] \in Instruction /\ Nop \in Instruction
  BY DEF Entry, Nop, Instruction, CodeOps
<1> QED
  BY <1>4, <1>5 DEF EnterWord, Entry, TypeOK, ControlType

LEMMA ExecuteType ==
  ASSUME TypeOK, CanariesIntact, Execute
  PROVE  TypeOK' /\ CanariesIntact'
<1>1. /\ Executing({"Execute"}) /\ IsWord(Arg(1)) /\ Pop
      /\ EnterWord(dict[Arg(1) + 1])
      /\ UNCHANGED store /\ UNCHANGED frames /\ UNCHANGED <<result, driver>>
  BY DEF Execute
<1>2. Arg(1) + 1 \in 1 .. Len(dict)
  BY <1>1, LenProperties DEF IsWord, TypeOK, StoreType
<1>3. dict[Arg(1) + 1] \in Entry
  BY <1>2, ElementOfSeq DEF TypeOK, StoreType
<1>4. /\ host' \in Seq(HostFrame) /\ ip' \in Int
      /\ at' \in {"step", "exec"} /\ instr' \in Instruction
  BY <1>1, <1>3, EnterWordType
<1>5. DataType' /\ CanariesIntact'
  BY <1>1, PopType DEF Executing
<1>6. ControlType'
  BY <1>1, <1>4 DEF TypeOK, ControlType
<1> QED
  BY <1>1, <1>5, <1>6, KeepsType DEF TypeOK

LEMMA CatchType ==
  ASSUME TypeOK, CanariesIntact, Catch
  PROVE  TypeOK' /\ CanariesIntact'
<1> DEFINE frame == [d_depth |-> d_depth, r_depth |-> Len(r_stack),
                     c_depth |-> Len(c_stack), handler_ip |-> ip]
<1>1. /\ exception_stack' = Append(exception_stack, frame) /\ Finish("Done")
      /\ UNCHANGED store /\ UNCHANGED data /\ UNCHANGED <<ip, caller>>
      /\ UNCHANGED <<f_depth, r_stack, c_stack, loop_stack>>
  BY DEF Catch
<1>2. Len(r_stack) \in Nat /\ Len(c_stack) \in Nat
  BY LenProperties DEF TypeOK, FramesType
<1>3. frame \in Frame
  BY <1>2 DEF Frame, TypeOK, DataType, ControlType
<1> HIDE DEF frame
<1>4. exception_stack' \in Seq(Frame)
  BY <1>1, <1>3, AppendProperties DEF TypeOK, FramesType
<1>5. FramesType'
  BY <1>1, <1>4 DEF TypeOK, FramesType
<1>6. DataStep
  BY <1>1, KeepsType, FinishType DEF DataStep, Status
<1> QED
  BY <1>1, <1>5, <1>6, KeepsType, ControlFromParts DEF TypeOK, DataStep

LEMMA StatusesType ==
  ASSUME TypeOK, CanariesIntact, Throw \/ Yield \/ Stop
  PROVE  TypeOK' /\ CanariesIntact'
<1>1. UNCHANGED store /\ UNCHANGED frames /\ UNCHANGED <<ip, caller>>
  BY DEF Throw, Yield, Stop
<1>2. CASE Throw
  <2>1. Executing({"Throw"}) /\ Pop
    BY <1>2 DEF Throw
  <2>2. Arity(instr.op) = 1
    BY <2>1, Arities DEF Executing, TakesOne
  <2>3. Arg(1) \in Val
    BY <2>1, <2>2, OperandsType
  <2>4. /\ at' = "result" /\ instr' \in Instruction
        /\ result' \in [status : Status, code : Val]
    BY <1>2, <2>3, SmallWords
    DEF Throw, Finish, Return, Nop, Instruction, CodeOps, Status
  <2>5. DataStep
    BY <2>1, <2>4, PopType DEF Executing, DataStep
  <2> QED
    BY <1>1, <2>5, KeepsType, ControlFromParts DEF TypeOK, DataStep
<1>3. CASE Yield \/ Stop
  <2>1. UNCHANGED data /\ (Finish("Yielded") \/ Finish("Stop"))
    BY <1>3 DEF Yield, Stop
  <2>2. DataStep
    BY <2>1, KeepsType, FinishType DEF DataStep, Status
  <2> QED
    BY <1>1, <2>2, KeepsType, ControlFromParts DEF TypeOK, DataStep
<1> QED
  BY <1>2, <1>3

-----------------------------------------------------------------------------
(***************************************************************************)
(* What the callers of an instruction do with its result, and the host.    *)
(***************************************************************************)
LEMMA ReturnsType ==
  ASSUME TypeOK, CanariesIntact,
         \/ WordGoesOn \/ ErrorEscapes \/ KeepRunning \/ RunEnds \/ NoHandler
         \/ InterpretReturns \/ StartRun
  PROVE  TypeOK' /\ CanariesIntact'
<1>1. /\ UNCHANGED store /\ UNCHANGED data /\ UNCHANGED frames
      /\ UNCHANGED <<ip, instr>>
      /\ host' \in {host, <<>>} /\ driver' \in {driver, "run_loop"}
      /\ at' \in {at, "step", "idle"}
      /\ result' \in {result, Done, [status |-> "Err", code |-> 0]}
  BY DEF WordGoesOn, ErrorEscapes, KeepRunning, RunEnds, NoHandler,
         InterpretReturns, StartRun, caller
<1>2. Done \in [status : Status, code : Val]
  BY SmallWords DEF Done, Status
<1>3. [status |-> "Err", code |-> 0] \in [status : Status, code : Val]
  BY SmallWords DEF Status
<1>4. host' \in Seq(HostFrame)
  BY <1>1, EmptySeq DEF TypeOK, ControlType
<1>5. ControlType'
  BY <1>1, <1>2, <1>3, <1>4 DEF TypeOK, ControlType
<1> QED
  BY <1>1, <1>5, KeepsType DEF TypeOK

LEMMA WordReturnsType ==
  ASSUME TypeOK, CanariesIntact, WordReturns
  PROVE  TypeOK' /\ CanariesIntact'
<1>1. /\ host # <<>> /\ host' = Front(host) /\ ip' \in {CallerOfHost.old_ip, ip}
      /\ result' \in {result, Done} /\ UNCHANGED <<at, instr, driver>>
      /\ UNCHANGED store /\ UNCHANGED data /\ UNCHANGED frames
  BY DEF WordReturns
<1>2. host' \in Seq(HostFrame) /\ CallerOfHost \in HostFrame
  BY <1>1, LastType DEF TypeOK, ControlType, CallerOfHost
<1>3. ip' \in Int
  BY <1>1, <1>2 DEF HostFrame, TypeOK, ControlType
<1>4. Done \in [status : Status, code : Val]
  BY SmallWords DEF Done, Status
<1>5. ControlType'
  BY <1>1, <1>2, <1>3, <1>4 DEF TypeOK, ControlType
<1> QED
  BY <1>1, <1>5, KeepsType DEF TypeOK

LEMMA TruncateType ==
  ASSUME NEW S, NEW s \in Seq(S), NEW n \in Nat
  PROVE  /\ Truncate(s, n) \in Seq(S) /\ Len(Truncate(s, n)) <= Len(s)
         /\ \A i \in 1 .. Len(Truncate(s, n)) : Truncate(s, n)[i] = s[i]
<1>1. CASE n <= Len(s)
  <2>1. n \in 0 .. Len(s)
    BY <1>1, LenProperties
  <2> QED
    BY <1>1, <2>1, PrefixType DEF Truncate
<1>2. CASE ~(n <= Len(s))
  BY <1>2, LenProperties DEF Truncate
<1> QED
  BY <1>1, <1>2

LEMMA UnwindType ==
  ASSUME TypeOK, CanariesIntact, UnwindThrow \/ UnwindError
  PROVE  TypeOK' /\ CanariesIntact'
<1> DEFINE frame == Last(exception_stack)
           room  == frame.d_depth < PushLimit
<1>1. PICK c \in Val :
        /\ exception_stack # <<>>
        /\ exception_stack' = Front(exception_stack)
        /\ d_depth' = IF room THEN frame.d_depth + 1 ELSE frame.d_depth
        /\ d_stack' = IF room THEN [d_stack EXCEPT ![frame.d_depth + 1] = c]
                              ELSE d_stack
        /\ r_stack' = Truncate(r_stack, frame.r_depth)
        /\ c_stack' = Truncate(c_stack, frame.c_depth)
        /\ ip' = frame.handler_ip
        /\ at' = IF room THEN "step" ELSE "idle"
        /\ result' = [status |-> IF room THEN "Done" ELSE "Err", code |-> 0]
        /\ UNCHANGED <<instr, f_depth, loop_stack, host, driver, store>>
  <2>1. result.code \in Val /\ -1 \in Val
    BY SmallWords DEF TypeOK, ControlType
  <2>2. Unwind(result.code) \/ Unwind(-1)
    BY DEF UnwindThrow, UnwindError
  <2> QED
    BY <2>1, <2>2 DEF Unwind
<1>2. frame \in Frame /\ exception_stack' \in Seq(Frame)
  BY <1>1, LastType DEF TypeOK, FramesType
<1> HIDE DEF frame
<1>3. /\ frame.d_depth \in 0 .. PushLimit /\ frame.r_depth \in Nat
      /\ frame.c_depth \in Nat /\ frame.handler_ip \in Int
  BY <1>2 DEF Frame
<1>4. DataType' /\ CanariesIntact'
  <2>1. CASE room
    <3>1. frame.d_depth + 1 \in 1 .. (StackSlots - 2)
      BY <1>3, <2>1, StackAssumption
    <3>2. d_stack' = [d_stack EXCEPT ![frame.d_depth + 1] = c]
      BY <1>1, <2>1
    <3>3. d_depth' \in 0 .. PushLimit
      BY <1>1, <1>3, <2>1, StackAssumption
    <3> QED
      BY <1>1, <3>1, <3>2, <3>3, StackAssumption
      DEF TypeOK, DataType, CanariesIntact, Slots
  <2>2. CASE ~room
    BY <1>1, <1>3, <2>2 DEF TypeOK, DataType, CanariesIntact
  <2> QED
    BY <2>1, <2>2
<1>5. FramesType'
  <2>1. r_stack' \in Seq(Val) /\ Len(r_stack') <= Len(r_stack)
    BY <1>1, <1>3, TruncateType DEF TypeOK, FramesType
  <2>2. Len(r_stack') <= RLimit
    BY <2>1, LenProperties, StackAssumption DEF TypeOK, FramesType
  <2>3. c_stack' \in Seq(Int)
    BY <1>1, <1>3, TruncateType DEF TypeOK, FramesType
  <2> QED
    BY <1>1, <1>2, <2>1, <2>2, <2>3 DEF TypeOK, FramesType
<1>6. ControlType'
  BY <1>1, <1>3, SmallWords DEF TypeOK, ControlType, Status
<1> QED
  BY <1>1, <1>4, <1>5, <1>6, KeepsType DEF TypeOK

LEMMA TextPushType ==
  ASSUME TypeOK, CanariesIntact, NEW v \in Val, TextPush(v),
         UNCHANGED <<at, instr, store, frames, ip, caller>>
  PROVE  TypeOK' /\ CanariesIntact'
<1>1. DataType' /\ CanariesIntact'
  <2>1. CASE d_depth < PushLimit
    <3>1. d_depth + 1 \in 1 .. (StackSlots - 2) /\ d_depth + 1 \in 0 .. PushLimit
      BY <2>1, StackAssumption DEF TypeOK, DataType
    <3> QED
      BY <2>1, <3>1, StackAssumption
      DEF TextPush, TypeOK, DataType, CanariesIntact, Slots
  <2>2. CASE ~(d_depth < PushLimit)
    BY <2>2, KeepsType DEF TextPush
  <2> QED
    BY <2>1, <2>2
<1>2. result' \in [status : Status, code : Val]
  BY SmallWords DEF TextPush, Done, Status
<1>3. DataStep
  BY <1>1, <1>2 DEF DataStep, TypeOK, ControlType
<1> QED
  BY <1>3, KeepsType, ControlFromParts DEF TypeOK, DataStep

LEMMA InterpretXtType ==
  ASSUME TypeOK, CanariesIntact, NEW xt \in 0 .. (Len(dict) - 1), InterpretXt(xt)
  PROVE  TypeOK' /\ CanariesIntact'
<1>1. xt + 1 \in 1 .. Len(dict)
  BY LenProperties DEF TypeOK, StoreType
<1>2. dict[xt + 1] \in Entry
  BY <1>1, ElementOfSeq DEF TypeOK, StoreType
<1>3. /\ host' \in Seq(HostFrame) /\ ip' \in Int
      /\ at' \in {"step", "exec"} /\ instr' \in Instruction
  BY <1>2, EnterWordType DEF InterpretXt
<1>4. Done \in [status : Status, code : Val]
  BY SmallWords DEF Done, Status
<1>5. ControlType'
  BY <1>3, <1>4 DEF InterpretXt, ControlType
<1>6. UNCHANGED store /\ UNCHANGED data /\ UNCHANGED frames
  BY DEF InterpretXt
<1> QED
  BY <1>5, <1>6, KeepsType DEF TypeOK

LEMMA InterpretType ==
  ASSUME TypeOK, CanariesIntact, InterpretNumber \/ InterpretWord
  PROVE  TypeOK' /\ CanariesIntact'
<1>1. CASE InterpretNumber
  BY <1>1, TextPushType, WordAssumption DEF InterpretNumber
<1>2. CASE InterpretWord
  BY <1>2, InterpretXtType DEF InterpretWord
<1> QED
  BY <1>1, <1>2

-----------------------------------------------------------------------------
LEMMA InitType == Init => TypeOK /\ CanariesIntact
<1> SUFFICES ASSUME Init
             PROVE  TypeOK /\ CanariesIntact
  OBVIOUS
<1>1. PICK p \in Programs : code = p.code /\ dict = p.dict
  BY DEF Init
<1>2. p \in Program
  BY ProgramAssumption
<1>3. code \in Seq(Instruction) /\ dict \in Seq(Entry)
  BY <1>1, <1>2 DEF Program
<1>4. 0 \in Byte /\ 0 \in Val
  BY SmallWords, Positive DEF Byte
<1>5. StoreType
  BY <1>3, <1>4, MemoryAssumption DEF Init, StoreType
<1>6. DataType /\ CanariesIntact
  BY <1>4, StackAssumption DEF Init, DataType, CanariesIntact, Slots
<1>7. FramesType
  BY StackAssumption DEF Init, FramesType
<1>8. ControlType
  BY <1>4 DEF Init, ControlType, Nop, Done, Instruction, CodeOps, Status
<1> QED
  BY <1>5, <1>6, <1>7, <1>8 DEF TypeOK

LEMMA NextType ==
  ASSUME TypeOK, CanariesIntact, [Next]_vars
  PROVE  TypeOK' /\ CanariesIntact'
<1>1. CASE ComputeStep
  BY <1>1, NullaryType, PushFType, ArithmeticType, DivideType, FailuresType,
     ShuffleType, UnaryType, AbsOverflowType, PairType, PickType, RollType,
     RefusalsType DEF ComputeStep
<1>2. CASE FrameStep
  BY <1>2, ToRType, FromRType, IndexType, DoType, LoopsType, RefusalsType
  DEF FrameStep
<1>3. CASE MemoryStep
  BY <1>3, ReadsType, WritesType, RefusalsType, AddressWrapsType, CommaType,
     AllotType, CompileCommaType DEF MemoryStep
<1>4. CASE ControlStep
  BY <1>4, JumpsType, CallType, CallNoWordType, RetType, ExecuteType,
     RefusalsType, CatchType, StatusesType DEF ControlStep
<1>5. CASE ReturnStep
  BY <1>5, ReturnsType, WordReturnsType, UnwindType DEF ReturnStep
<1>6. CASE HostStep
  BY <1>6, InterpretType, ReturnsType DEF HostStep
<1>7. CASE PastEnd \/ Decode \/ Exhaust \/ Underflow
  BY <1>7, HeadType, FailuresType
<1>8. CASE Crashed \/ UNCHANGED vars
  BY <1>8 DEF Crashed, vars, store, data, frames, caller, TypeOK, StoreType,
              DataType, FramesType, ControlType, CanariesIntact
<1> QED
  BY <1>1, <1>2, <1>3, <1>4, <1>5, <1>6, <1>7, <1>8 DEF Next, VmStep

\* Every reachable state of the interpreter is well typed, and the bounded
\* stacks stay within their limits: d_push, f_push, r_push and
\* unwind_to_handler are the only code that looks at a limit.
THEOREM TypeCorrect == Spec => []TypeOK
<1>1. Init => TypeOK /\ CanariesIntact
  BY InitType
<1>2. TypeOK /\ CanariesIntact /\ [Next]_vars => TypeOK' /\ CanariesIntact'
  BY NextType
<1> QED
  BY <1>1, <1>2, PTL DEF Spec

\* The canaries of the data stack region are never written, so that
\* verify_canaries could not fail if it were called.
THEOREM CanariesHold == Spec => []CanariesIntact
<1>1. Init => TypeOK /\ CanariesIntact
  BY InitType
<1>2. TypeOK /\ CanariesIntact /\ [Next]_vars => TypeOK' /\ CanariesIntact'
  BY NextType
<1> QED
  BY <1>1, <1>2, PTL DEF Spec

-----------------------------------------------------------------------------
(***************************************************************************)
(* The call stack.                                                         *)
(***************************************************************************)
\* The instructions that neither call, return, execute a word nor compile.
PlainStep ==
  \/ PastEnd \/ Underflow \/ Exhaust \/ ComputeStep \/ FrameStep
  \/ FetchCell \/ StoreCell \/ FetchC \/ StoreC \/ OutOfMemory \/ AddressWraps
  \/ Comma \/ CommaNoRoom \/ Allot
  \/ Jump \/ JZ \/ CallNoWord \/ ExecuteNoWord
  \/ Catch \/ Throw \/ Yield \/ Stop

LEMMA PlainSteps ==
  ASSUME PlainStep
  PROVE  /\ at \in {"step", "exec"} /\ at' \in {"result", "crash"}
         /\ UNCHANGED <<code, dict, c_stack, host>>
<1> USE DEF Executing, Compute, Refuse, PopPush, Finish, Return, Crash, store,
            frames, caller
<1>1. CASE PastEnd \/ Underflow \/ Exhaust
  BY <1>1 DEF PastEnd, Underflow, Exhaust
<1>2. CASE ComputeStep
  BY <1>2 DEF ComputeStep, Push, PushF, Arithmetic, Divide, DivideByZero,
    Shuffle, Unary, AbsInRange, AbsOverflow, Extreme, BitLogic, Shift, Compare,
    Constant, Output, Noop, Pick, PickTooDeep, Roll, RollTooDeep
<1>3. CASE FrameStep
  BY <1>3 DEF FrameStep, ToR, FromR, RFetch, EmptyR, Do, Loop, PLoop, NotInLoop,
    I, J
<1>4. CASE FetchCell \/ StoreCell \/ FetchC \/ StoreC \/ OutOfMemory
             \/ AddressWraps \/ Comma \/ CommaNoRoom \/ Allot
  BY <1>4 DEF FetchCell, StoreCell, FetchC, StoreC, OutOfMemory, AddressWraps,
    Comma, CommaNoRoom, Allot
<1>5. CASE Jump \/ JZ \/ CallNoWord \/ ExecuteNoWord \/ Catch \/ Throw
             \/ Yield \/ Stop
  BY <1>5 DEF Jump, JZ, GoTo, CallNoWord, ExecuteNoWord, Catch, Throw, Yield, Stop
<1> QED
  BY <1>1, <1>2, <1>3, <1>4, <1>5 DEF PlainStep

\* While a Call executes, ip is the address after it.
CallInProgress ==
  at = "exec" /\ instr.op = "Call" =>
    ip \in 1 .. Len(code) /\ code[ip].op = "Call"

LEMMA EnteredWord ==
  ASSUME NEW entry \in Entry, EnterWord(entry)
  PROVE  at' = "exec" => instr'.op # "Call"
<1>1. entry.op # "Call"
  BY DEF Entry, PrimitiveOps, ArithmeticOps, DivisionOps, ShuffleOps, UnaryOps,
    BitOps, ShiftOps, ExtremeOps, CompareOps, ConstantOps, OutputOps, MemoryOps
<1> QED
  BY <1>1 DEF EnterWord

LEMMA NextFrames ==
  ASSUME TypeOK, FramesFollowCalls, CallInProgress, [Next]_vars
  PROVE  FramesFollowCalls' /\ CallInProgress'
<1> DEFINE Follows(s) ==
      \A k \in 1 .. Len(s) : s[k] \in 1 .. Len(code) /\ code[s[k]].op = "Call"
<1>1. Follows(c_stack) /\ c_stack \in Seq(Int) /\ Len(c_stack) \in Nat
  BY LenProperties DEF FramesFollowCalls, TypeOK, FramesType
<1>2. CASE PlainStep
  BY <1>2, PlainSteps DEF FramesFollowCalls, CallInProgress
<1>3. CASE ReturnStep /\ ~UnwindThrow /\ ~UnwindError
  <2>1. UNCHANGED <<code, c_stack>> /\ at' # "exec"
    BY <1>3 DEF ReturnStep, WordGoesOn, WordReturns, ErrorEscapes, KeepRunning,
      RunEnds, NoHandler, InterpretReturns, RunLoopGets, Returned, store, frames
  <2> QED
    BY <2>1 DEF FramesFollowCalls, CallInProgress
<1>4. CASE InterpretNumber \/ StartRun
  <2>1. UNCHANGED <<code, c_stack>> /\ at' # "exec"
    BY <1>4 DEF InterpretNumber, TextPush, StartRun, store, frames
  <2> QED
    BY <2>1 DEF FramesFollowCalls, CallInProgress
<1>5. CASE Decode
  <2>1. UNCHANGED <<code, c_stack>> /\ ip' = ip + 1 /\ instr' = code[ip + 1]
    BY <1>5 DEF Decode, store, frames
  <2>2. ip + 1 \in 1 .. Len(code)
    BY <1>5, LenProperties DEF Decode, InCode, TypeOK, StoreType, ControlType
  <2> QED
    BY <2>1, <2>2 DEF FramesFollowCalls, CallInProgress
<1>6. CASE Call
  <2>1. /\ c_stack' = Append(c_stack, ip) /\ UNCHANGED code /\ at' = "result"
        /\ ip \in 1 .. Len(code) /\ code[ip].op = "Call"
    BY <1>6 DEF Call, Executing, Finish, Return, CallInProgress, store
  <2>2. ip \in Int
    BY DEF TypeOK, ControlType
  <2>3. Follows(c_stack')
    BY <1>1, <2>1, <2>2, AppendProperties
  <2> QED
    BY <2>1, <2>3 DEF FramesFollowCalls, CallInProgress
<1>7. CASE Ret
  <2>1. c_stack # <<>> /\ c_stack' = Front(c_stack) /\ UNCHANGED code /\ at' = "result"
    BY <1>7 DEF Ret, Finish, Return, store
  <2>2. /\ Len(c_stack') = Len(c_stack) - 1
        /\ \A k \in 1 .. (Len(c_stack) - 1) : c_stack'[k] = c_stack[k]
    BY <1>1, <2>1, LastType
  <2>3. Follows(c_stack')
    BY <1>1, <2>2
  <2> QED
    BY <2>1, <2>3 DEF FramesFollowCalls, CallInProgress
<1>8. CASE UnwindThrow \/ UnwindError
  <2>1. /\ exception_stack # <<>> /\ UNCHANGED code /\ at' # "exec"
        /\ c_stack' = Truncate(c_stack, Last(exception_stack).c_depth)
    BY <1>8 DEF UnwindThrow, UnwindError, Unwind, store
  <2>2. Last(exception_stack) \in Frame
    BY <2>1, LastType DEF TypeOK, FramesType
  <2>3. Last(exception_stack).c_depth \in Nat
    BY <2>2 DEF Frame
  <2>4. /\ Len(c_stack') \in Nat /\ Len(c_stack') <= Len(c_stack)
        /\ \A k \in 1 .. Len(c_stack') : c_stack'[k] = c_stack[k]
    BY <1>1, <2>1, <2>3, TruncateType, LenProperties
  <2>5. Follows(c_stack')
    BY <1>1, <2>4
  <2> QED
    BY <2>1, <2>5 DEF FramesFollowCalls, CallInProgress
<1>9. CASE CompileComma
  <2>1. /\ code' = Append(code, [op |-> "Call", data |-> Arg(1)])
        /\ UNCHANGED c_stack /\ at' = "result" /\ Executing({"CompileComma"})
    BY <1>9 DEF CompileComma, Finish, Return, frames
  <2>2. Arity(instr.op) = 1
    BY <2>1, Arities DEF Executing, TakesOne
  <2>3. Arg(1) \in Int
    <3>1. Arg(1) \in Val
      BY <2>1, <2>2, OperandsType
    <3> QED
      BY <3>1, SmallWords
  <2>4. [op |-> "Call", data |-> Arg(1)] \in Instruction /\ code \in Seq(Instruction)
    BY <2>3 DEF Instruction, CodeOps, TypeOK, StoreType
  <2>5. /\ Len(code') = Len(code) + 1 /\ Len(code) \in Nat
        /\ \A k \in 1 .. Len(code) : code'[k] = code[k]
    BY <2>1, <2>4, AppendProperties, LenProperties
  <2>6. \A k \in 1 .. Len(c_stack) :
          c_stack[k] \in 1 .. Len(code') /\ code'[c_stack[k]].op = "Call"
    BY <1>1, <2>5
  <2> QED
    BY <2>1, <2>6 DEF FramesFollowCalls, CallInProgress
<1>10. CASE Execute \/ InterpretWord
  <2>1. PICK x \in 0 .. (Len(dict) - 1) : EnterWord(dict[x + 1])
    BY <1>10 DEF Execute, InterpretWord, InterpretXt, IsWord
  <2>2. x + 1 \in 1 .. Len(dict)
    BY LenProperties DEF TypeOK, StoreType
  <2>3. dict[x + 1] \in Entry
    BY <2>2, ElementOfSeq DEF TypeOK, StoreType
  <2>4. at' = "exec" => instr'.op # "Call"
    BY <2>1, <2>3, EnteredWord
  <2>5. UNCHANGED <<code, c_stack>>
    BY <1>10 DEF Execute, InterpretWord, InterpretXt, store, frames
  <2> QED
    BY <2>4, <2>5 DEF FramesFollowCalls, CallInProgress
<1>11. CASE Crashed \/ UNCHANGED vars
  BY <1>11 DEF Crashed, vars, store, frames, FramesFollowCalls, CallInProgress
<1> QED
  BY <1>2, <1>3, <1>4, <1>5, <1>6, <1>7, <1>8, <1>9, <1>10, <1>11
  DEF Next, VmStep, HostStep, PlainStep, MemoryStep, ControlStep, ReturnStep

\* Whatever exceptions truncate, executed words pop and running code compiles,
\* every frame of the call stack returns to the instruction after a Call.
THEOREM FramesHold == Spec => []FramesFollowCalls
<1>1. Init => FramesFollowCalls /\ CallInProgress
  BY DEF Init, FramesFollowCalls, CallInProgress
<1>2. TypeOK /\ FramesFollowCalls /\ CallInProgress /\ [Next]_vars
        => FramesFollowCalls' /\ CallInProgress'
  BY NextFrames
<1> QED
  BY <1>1, <1>2, TypeCorrect, PTL DEF Spec

-----------------------------------------------------------------------------
(***************************************************************************)
(* Nested execute_word calls.                                              *)
(***************************************************************************)
LEMMA NextHosts ==
  ASSUME TypeOK, HostNesting, [Next]_vars
  PROVE  HostNesting'
<1> DEFINE Bound == Len(c_stack) + (IF at = "result" THEN 1 ELSE 0)
<1>1. /\ Len(c_stack) \in Nat /\ Len(host) \in Nat
      /\ host \in Seq(HostFrame) /\ c_stack \in Seq(Int)
  BY LenProperties DEF TypeOK, FramesType, ControlType
<1>2. \A i \in 1 .. Len(host) : host[i].old_c_depth \in Nat
  <2>1. \A i \in 1 .. Len(host) : host[i] \in HostFrame
    BY <1>1, ElementOfSeq
  <2> QED
    BY <2>1 DEF HostFrame
<1>3. CASE PlainStep
  BY <1>1, <1>2, <1>3, PlainSteps DEF HostNesting, Last
<1>4. CASE CompileComma
  <2>1. UNCHANGED <<c_stack, host>> /\ at = "exec" /\ at' = "result"
    BY <1>4 DEF CompileComma, Executing, Finish, Return, frames, caller
  <2> QED
    BY <1>1, <1>2, <2>1 DEF HostNesting, Last
<1>5. CASE Call
  <2>1. /\ at = "exec" /\ at' = "result" /\ UNCHANGED host
        /\ c_stack' = Append(c_stack, ip) /\ ip \in Int
    BY <1>5 DEF Call, Executing, Finish, Return, caller, TypeOK, ControlType
  <2>2. Len(c_stack') = Len(c_stack) + 1
    BY <1>1, <2>1, AppendProperties
  <2> QED
    BY <1>1, <1>2, <2>1, <2>2 DEF HostNesting, Last
<1>6. CASE Ret
  <2>1. /\ at = "exec" /\ at' = "result" /\ UNCHANGED host
        /\ c_stack # <<>> /\ c_stack' = Front(c_stack)
    BY <1>6 DEF Ret, Executing, Finish, Return, caller
  <2>2. Len(c_stack') = Len(c_stack) - 1
    BY <1>1, <2>1, LastType
  <2> QED
    BY <1>1, <1>2, <2>1, <2>2 DEF HostNesting, Last
<1>7. CASE Execute \/ InterpretWord
  <2>1. PICK x : EnterWord(dict[x])
    BY <1>7 DEF Execute, InterpretWord, InterpretXt
  <2> DEFINE frame == [kind |-> dict[x].kind, old_ip |-> ip, old_c_depth |-> Len(c_stack)]
  <2>2. host' = Append(host, frame) /\ at' \in {"exec", "step"} /\ UNCHANGED c_stack
    BY <1>7, <2>1 DEF EnterWord, Execute, InterpretWord, InterpretXt, frames
  <2>3. frame.old_c_depth = Len(c_stack)
    OBVIOUS
  <2> HIDE DEF frame
  <2>4. /\ Len(host') = Len(host) + 1
        /\ \A i \in 1 .. Len(host) : host'[i] = host[i]
        /\ host'[Len(host) + 1] = frame
    BY <1>1, <2>2
  <2>5. \A i \in 1 .. Len(host) : host[i].old_c_depth <= Len(c_stack)
    <3>1. CASE host = <<>>
      BY <3>1
    <3>2. CASE host # <<>>
      <4>1. at = "exec"
        BY <1>7, <3>2 DEF Execute, Executing, InterpretWord, InterpretXt, HostNesting
      <4>2. Last(host).old_c_depth <= Len(c_stack)
        BY <1>1, <3>2, <4>1 DEF HostNesting
      <4> QED
        BY <1>1, <1>2, <4>2 DEF HostNesting, Last
    <3> QED
      BY <3>1, <3>2
  <2> QED
    BY <1>1, <1>2, <2>2, <2>3, <2>4, <2>5 DEF HostNesting, Last
<1>8. CASE WordReturns
  <2>1. /\ host # <<>> /\ host' = Front(host) /\ at = "result"
        /\ UNCHANGED <<at, c_stack>>
    BY <1>8 DEF WordReturns, frames
  <2>2. /\ Len(host') = Len(host) - 1
        /\ \A i \in 1 .. (Len(host) - 1) : host'[i] = host[i]
    BY <1>1, <2>1, LastType
  <2>3. Last(host).old_c_depth <= Len(c_stack) + 1
    BY <2>1 DEF HostNesting
  <2>4. \A i, j \in 1 .. Len(host') :
          i < j => host'[i].old_c_depth <= host'[j].old_c_depth
    <3> SUFFICES ASSUME NEW i \in 1 .. Len(host'), NEW j \in 1 .. Len(host'), i < j
                 PROVE  host'[i].old_c_depth <= host'[j].old_c_depth
      OBVIOUS
    <3>1. i \in 1 .. (Len(host) - 1) /\ j \in 1 .. (Len(host) - 1)
      BY <2>2
    <3>2. host'[i] = host[i] /\ host'[j] = host[j]
      BY <2>2, <3>1
    <3>3. host[i].old_c_depth <= host[j].old_c_depth
      BY <1>1, <3>1 DEF HostNesting
    <3> QED
      BY <3>2, <3>3
  <2>5. CASE Len(host) = 1
    <3>1. host' = <<>>
      BY <1>1, <2>1, <2>2, <2>5, LastType, EmptySeq
    <3> QED
      BY <3>1 DEF HostNesting
  <2>6. CASE Len(host) > 1
    <3>1. host[Len(host) - 1].old_c_depth <= host[Len(host)].old_c_depth
      BY <1>1, <2>6 DEF HostNesting
    <3>2. Last(host').old_c_depth <= Len(c_stack') + 1
      BY <1>1, <1>2, <2>1, <2>2, <2>3, <2>6, <3>1 DEF Last
    <3> QED
      BY <2>1, <2>4, <3>2 DEF HostNesting
  <2>7. Len(host) = 1 \/ Len(host) > 1
    <3>1. Len(host) \in Nat \ {0}
      BY <1>1, <2>1, EmptySeq
    <3> QED
      BY <3>1
  <2> QED
    BY <2>5, <2>6, <2>7
<1>9. CASE WordGoesOn
  <2>1. /\ UNCHANGED <<host, c_stack>> /\ at' = "step"
        /\ Last(host).old_c_depth <= Len(c_stack)
    BY <1>1, <1>2, <1>9 DEF WordGoesOn, CallerOfHost, frames, caller, Last
  <2> QED
    BY <1>1, <2>1 DEF HostNesting
<1>10. CASE \/ ErrorEscapes \/ KeepRunning \/ RunEnds \/ NoHandler
            \/ InterpretReturns \/ InterpretNumber \/ StartRun
            \/ UnwindThrow \/ UnwindError
  <2>1. host' = <<>>
    BY <1>10 DEF ErrorEscapes, KeepRunning, RunEnds, NoHandler, InterpretReturns,
      InterpretNumber, TextPush, StartRun, UnwindThrow, UnwindError, Unwind, RunLoopGets,
      caller, HostNesting
  <2> QED
    BY <2>1 DEF HostNesting
<1>11. CASE Decode
  <2>1. UNCHANGED <<host, c_stack>> /\ at = "step" /\ at' = "exec"
    BY <1>11 DEF Decode, frames
  <2> QED
    BY <1>1, <1>2, <2>1 DEF HostNesting, Last
<1>12. CASE Crashed \/ UNCHANGED vars
  BY <1>12 DEF Crashed, vars, frames, caller, HostNesting
<1> QED
  BY <1>3, <1>4, <1>5, <1>6, <1>7, <1>8, <1>9, <1>10, <1>11, <1>12
  DEF Next, VmStep, HostStep, PlainStep, MemoryStep, ControlStep, ReturnStep

\* The execute_word calls on the native stack stay nested: none runs on below
\* the call stack depth it was entered at, and none outlives its caller.
THEOREM HostsNest == Spec => []HostNesting
<1>1. Init => HostNesting
  BY DEF Init, HostNesting
<1>2. TypeOK /\ HostNesting /\ [Next]_vars => HostNesting'
  BY NextHosts
<1> QED
  BY <1>1, <1>2, TypeCorrect, PTL DEF Spec

-----------------------------------------------------------------------------
(***************************************************************************)
(* Properties of single steps.                                             *)
(***************************************************************************)
LEMMA StepOperands ==
  ASSUME TypeOK, CanariesIntact, [Next]_vars, at = "exec", instr.op # "Roll"
  PROVE  OperandsOnly
<1> USE DEF Executing
<1>1. CASE UNCHANGED data
  BY <1>1, ArityType, StackAssumption DEF data, OperandsOnly, TypeOK, DataType
<1>2. CASE Pop /\ d_depth >= Arity(instr.op)
  BY <1>2, PopOnly
<1>3. CASE DivideByZero
  <2>1. Arity(instr.op) = 2
    BY <1>3, Arities DEF DivideByZero, TakesTwo
  <2> QED
    BY <1>3, <2>1, StackAssumption DEF DivideByZero, OperandsOnly, TypeOK, DataType
<1>4. CASE Underflow
  BY <1>4, ArityType, StackAssumption DEF Underflow, OperandsOnly, TypeOK, DataType
<1>5. CASE ComputeStep
  BY <1>1, <1>2, <1>3, <1>5, NullaryType, ArithmeticType, DivideType, ShuffleType,
    UnaryType, AbsOverflowType, PairType, PickType
  DEF ComputeStep, PushF, PickTooDeep, RollTooDeep, Roll, Refuse
<1>6. CASE FrameStep
  BY <1>1, <1>2, <1>6, FromRType, IndexType
  DEF FrameStep, ToR, EmptyR, Do, Loop, PLoop, NotInLoop, Refuse
<1>7. CASE MemoryStep
  BY <1>2, <1>7, ReadsType
  DEF MemoryStep, StoreCell, StoreC, OutOfMemory, AddressWraps, Comma, CommaNoRoom,
    Allot, CompileComma, Refuse
<1>8. CASE ControlStep
  BY <1>1, <1>2, <1>8
  DEF ControlStep, Jump, JZ, Call, CallNoWord, Ret, Execute, ExecuteNoWord, Catch,
    Throw, Yield, Stop, Refuse
<1>9. CASE ReturnStep \/ HostStep \/ PastEnd \/ Decode
  BY <1>9
  DEF ReturnStep, HostStep, PastEnd, Decode, WordGoesOn, WordReturns, ErrorEscapes,
    KeepRunning, RunEnds, UnwindThrow, UnwindError, NoHandler, InterpretReturns,
    RunLoopGets, Returned, InterpretNumber, TextPush, InterpretWord, InterpretXt, StartRun
<1>10. CASE Exhaust \/ Crashed \/ UNCHANGED vars
  BY <1>1, <1>10 DEF Exhaust, Crashed, vars
<1> QED
  BY <1>4, <1>5, <1>6, <1>7, <1>8, <1>9, <1>10 DEF Next, VmStep

\* No instruction but Roll, whether it succeeds, runs out of operands or is
\* refused halfway, changes or drops a cell below its operands.
THEOREM OperandsHold == Spec => OnlyOperandsTouched
<1>1. TypeOK /\ CanariesIntact /\ [Next]_vars =>
        [at = "exec" /\ instr.op # "Roll" =>
           \A s \in 1 .. (d_depth - Arity(instr.op)) :
             d_stack'[s] = d_stack[s] /\ s <= d_depth']_vars
  BY StepOperands DEF OperandsOnly
<1> QED
  BY <1>1, TypeCorrect, CanariesHold, PTL DEF Spec, OnlyOperandsTouched

LEMMA StepDivision ==
  ASSUME TypeOK, Next, instr.op = "DivMod", result'.status = "Done", at = "exec"
  PROVE  LET b == Arg(2)                  q == d_stack'[d_depth]
             a == Arg(1)                  r == d_stack'[d_depth - 1]
         IN  /\ Wrap(q * a + r) = b
             /\ Magnitude(r) < Magnitude(a)
             /\ r # 0 => (r < 0) = (b < 0)
<1>1. CASE Divide
  <2>1. d_depth >= Arity(instr.op) /\ Arg(1) # 0
        /\ PopPush(<<Wrap(Remainder(Arg(2), Arg(1))), Wrap(Quotient(Arg(2), Arg(1)))>>)
    BY <1>1 DEF Divide, Compute, Executing, DivisionResult
  <2>2. Arity(instr.op) = 2 /\ Executing(DivisionOps)
    BY <1>1, Arities DEF TakesTwo, DivisionOps, Divide
  <2>3. Arg(1) \in Val /\ Arg(2) \in Val
    BY <2>2, OperandsType
  <2> DEFINE out == <<Wrap(Remainder(Arg(2), Arg(1))), Wrap(Quotient(Arg(2), Arg(1)))>>
             left == d_depth - 2
  <2>4. Len(out) = 2 /\ out[1] = Wrap(Remainder(Arg(2), Arg(1)))
        /\ out[2] = Wrap(Quotient(Arg(2), Arg(1)))
    OBVIOUS
  <2> HIDE DEF out
  <2>5. d_depth \in 2 .. PushLimit /\ PushLimit + 2 <= StackSlots /\ PushLimit \in Nat /\ StackSlots \in Nat
    BY <2>1, <2>2, StackAssumption DEF TypeOK, DataType
  <2>6. /\ d_stack' = [s \in Slots |->
                         IF s \in (left + 1) .. Least(left + 2, PushLimit) THEN out[s - left]
                                                                            ELSE d_stack[s]]
    BY <2>1, <2>2, <2>4 DEF PopPush, out
  <2>7. Least(left + 2, PushLimit) = d_depth
    BY <2>5 DEF Least
  <2>8. d_depth - 1 \in Slots /\ d_depth \in Slots
    BY <2>5 DEF Slots
  <2>9. d_stack'[d_depth - 1] = out[1] /\ d_stack'[d_depth] = out[2]
    <3>1. (d_depth - 1) - left = 1 /\ d_depth - left = 2
          /\ d_depth - 1 \in (left + 1) .. d_depth /\ d_depth \in (left + 1) .. d_depth
      BY <2>5
    <3> HIDE DEF left
    <3> QED
      BY <2>6, <2>7, <2>8, <3>1
  <2> QED
    BY <2>1, <2>3, <2>4, <2>9, WrappedDivision
<1>2. CASE ComputeStep /\ ~Divide
  BY <1>2 DEF ComputeStep, Push, PushF, Arithmetic, DivideByZero, Shuffle, Unary,
    AbsInRange, AbsOverflow, Extreme, BitLogic, Shift, Compare, Constant, Output, Noop, Pick,
    PickTooDeep, Roll, RollTooDeep, Compute, Executing, Finish, Return, ArithmeticOps,
    ShuffleOps, UnaryOps, ExtremeOps, BitOps, ShiftOps, CompareOps, ConstantOps, OutputOps
<1>3. CASE FrameStep
  BY <1>3 DEF FrameStep, ToR, FromR, RFetch, EmptyR, Do, Loop, PLoop, NotInLoop, I, J,
    Compute, Refuse, Executing
<1>4. CASE MemoryStep
  BY <1>4 DEF MemoryStep, FetchCell, StoreCell, FetchC, StoreC, OutOfMemory, AddressWraps,
    Comma, CommaNoRoom, Allot, CompileComma, Compute, Refuse, Executing
<1>5. CASE ControlStep
  BY <1>5 DEF ControlStep, Jump, JZ, Call, CallNoWord, Ret, Execute, ExecuteNoWord, Catch,
    Throw, Yield, Stop, Refuse, Executing
<1>6. CASE ReturnStep \/ HostStep \/ PastEnd \/ Decode \/ Crashed
  BY <1>6 DEF ReturnStep, HostStep, WordGoesOn, WordReturns, ErrorEscapes, KeepRunning,
    RunEnds, UnwindThrow, UnwindError, NoHandler, InterpretReturns, RunLoopGets, Returned,
    InterpretNumber, InterpretWord, InterpretXt, StartRun, PastEnd, Decode, Crashed
<1>7. CASE Underflow \/ Exhaust
  BY <1>7 DEF Underflow, Exhaust, Finish, Return, Crash
<1> QED
  BY <1>1, <1>2, <1>3, <1>4, <1>5, <1>6, <1>7 DEF Next, VmStep

\* What DivMod leaves reconstructs its dividend, for every pair of words with
\* a divisor other than zero, the one overflowing pair included.
THEOREM DivisionExact == Spec => DivisionIsExact
<1>1. TypeOK /\ [Next]_vars =>
        [instr.op = "DivMod" /\ result'.status = "Done" /\ at = "exec" =>
           LET b == Arg(2)                  q == d_stack'[d_depth]
               a == Arg(1)                  r == d_stack'[d_depth - 1]
           IN  /\ Wrap(q * a + r) = b
               /\ Magnitude(r) < Magnitude(a)
               /\ r # 0 => (r < 0) = (b < 0)]_vars
  BY StepDivision
<1> QED
  BY <1>1, TypeCorrect, PTL DEF Spec, DivisionIsExact

\* Where comma writes and where allot then puts here are bounds-checked
\* separately; in a data space of whole cells the checks agree.
LEMMA AlignedFits ==
  ASSUME MemSize % CellBytes = 0, NEW h \in Nat, CellFits(h)
  PROVE  CellFits(Aligned(h))
<1> DEFINE C == CellBytes
           M == MemSize
           q == h \div C
           r == h % C
           k == M \div C
<1>1. C \in Nat \ {0} /\ M \in Nat
  BY WordAssumption, MemoryAssumption
<1>2. h + C <= M /\ M % C = 0
  BY DEF CellFits
<1>3. Aligned(h) = h + ((C - r) % C)
  BY DEF Aligned
<1> HIDE DEF C, M
<1>4. q \in Nat /\ r \in 0 .. (C - 1) /\ h = C * q + r
  BY <1>1
<1>5. k \in Nat /\ M = C * k
  BY <1>1, <1>2
<1> HIDE DEF q, r, k
<1>6. CASE r = 0
  <2>1. (C - r) % C = 0
    BY <1>1, <1>6
  <2> QED
    BY <1>2, <1>3, <2>1 DEF CellFits, C, M
<1>7. CASE r > 0
  <2>1. (C - r) % C = C - r
    BY <1>1, <1>4, <1>7
  <2>2. C * (q + 1) < C * k
    BY <1>1, <1>2, <1>4, <1>5, <1>7
  <2>3. q + 1 < k
    BY <1>1, <1>4, <1>5, <2>2
  <2>4. C * (q + 2) <= C * k
    BY <1>1, <1>4, <1>5, <2>3
  <2>5. Aligned(h) = C * (q + 1)
    BY <1>1, <1>3, <1>4, <2>1
  <2>6. Aligned(h) >= 0 /\ Aligned(h) + C <= M
    BY <1>1, <1>4, <1>5, <2>4, <2>5
  <2> QED
    BY <2>6 DEF CellFits, C, M
<1> QED
  BY <1>4, <1>6, <1>7

LEMMA StepComma ==
  ASSUME MemSize % CellBytes = 0, TypeOK, [Next]_vars,
         instr.op = "Comma", at = "exec"
  PROVE  \/ UNCHANGED <<mem, here>>
         \/ result'.status = "Done" /\ here' >= here + CellBytes
<1>1. CASE Comma
  <2>1. here \in Nat
    BY MemoryAssumption DEF TypeOK, StoreType
  <2>2. CellFits(Aligned(here))
    BY <1>1, <2>1, AlignedFits DEF Comma
  <2>3. here' = Aligned(here) + CellBytes /\ result'.status = "Done"
    BY <1>1, <2>2 DEF Comma, Finish, Return
  <2>4. Aligned(here) \in Int /\ Aligned(here) >= here
    BY <2>1, AlignedType, WordAssumption
  <2> QED
    BY <2>1, <2>3, <2>4, WordAssumption
<1>2. CASE MemoryStep /\ ~Comma
  BY <1>2 DEF MemoryStep, FetchCell, StoreCell, FetchC, StoreC, OutOfMemory,
    AddressWraps, CommaNoRoom, Allot, CompileComma, Compute, Refuse, Executing, store
<1>3. CASE ComputeStep
  BY <1>3 DEF ComputeStep, Push, PushF, Arithmetic, Divide, DivideByZero,
    Shuffle, Unary, AbsInRange, AbsOverflow, Extreme, BitLogic, Shift, Compare,
    Constant, Output, Noop, Pick, PickTooDeep, Roll, RollTooDeep, Compute, Refuse, store
<1>4. CASE FrameStep
  BY <1>4 DEF FrameStep, ToR, FromR, RFetch, EmptyR, Do, Loop, PLoop, NotInLoop,
    I, J, Compute, Refuse, store
<1>5. CASE ControlStep
  BY <1>5 DEF ControlStep, Jump, JZ, Call, CallNoWord, Ret, Execute, ExecuteNoWord,
    Catch, Throw, Yield, Stop, Refuse, store
<1>6. CASE ReturnStep \/ HostStep
  BY <1>6 DEF ReturnStep, HostStep, WordGoesOn, WordReturns, ErrorEscapes,
    KeepRunning, RunEnds, UnwindThrow, UnwindError, Unwind, NoHandler,
    InterpretReturns, InterpretNumber, TextPush, InterpretWord, InterpretXt, StartRun, store
<1>7. CASE PastEnd \/ Decode \/ Underflow \/ Exhaust \/ Crashed \/ UNCHANGED vars
  BY <1>7 DEF PastEnd, Decode, Underflow, Exhaust, Crashed, vars, store
<1> QED
  BY <1>1, <1>2, <1>3, <1>4, <1>5, <1>6, <1>7 DEF Next, VmStep

\* In a data space of whole cells, such as the 1 MiB of main.rs, a comma that
\* fails has written nothing and reserved nothing.
THEOREM CommaAtomic ==
  ASSUME MemSize % CellBytes = 0
  PROVE  Spec => CommaIsAtomic
<1>1. TypeOK /\ [Next]_vars =>
        [instr.op = "Comma" /\ at = "exec" =>
           \/ UNCHANGED <<mem, here>>
           \/ result'.status = "Done" /\ here' >= here + CellBytes]_vars
  BY StepComma
<1> QED
  BY <1>1, TypeCorrect, PTL DEF Spec, CommaIsAtomic

LEMMA StepLoops ==
  ASSUME TypeOK, LoopPaired, [Next]_vars
  PROVE  LoopPaired'
<1>1. Len(loop_stack) \in Nat
  BY LenProperties DEF TypeOK, FramesType
<1>2. CASE Do
  <2>1. Executing({"Do"}) /\ loop_stack' = loop_stack \o <<Arg(2), Arg(1)>>
    BY <1>2 DEF Do
  <2>2. Arity(instr.op) = 2
    BY <2>1, Arities DEF Executing, TakesTwo
  <2>3. <<Arg(2), Arg(1)>> \in Seq(Val)
    BY <2>1, <2>2, OperandsType, PushedType
  <2>4. Len(loop_stack') = Len(loop_stack) + 2
    BY <2>1, <2>3, ConcatProperties DEF TypeOK, FramesType
  <2> QED
    BY <1>1, <2>4 DEF LoopPaired
<1>3. CASE Loop \/ PLoop
  <2>1. Len(loop_stack) >= 2
    BY <1>3 DEF Loop, PLoop
  <2>2. Len(loop_stack') \in {Len(loop_stack), Len(loop_stack) - 2}
    BY <1>3, LoopEdgeLength, <2>1 DEF Loop, PLoop
  <2> QED
    BY <1>1, <2>2 DEF LoopPaired
<1>4. CASE FrameStep /\ ~Do /\ ~Loop /\ ~PLoop
  BY <1>4 DEF FrameStep, ToR, FromR, RFetch, EmptyR, NotInLoop, I, J, Compute, Refuse,
    frames, LoopPaired
<1>5. CASE MemoryStep
  BY <1>5 DEF MemoryStep, FetchCell, StoreCell, FetchC, StoreC, OutOfMemory,
    AddressWraps, Comma, CommaNoRoom, Allot, CompileComma, Compute, Refuse, frames,
    LoopPaired
<1>6. CASE ComputeStep
  BY <1>6 DEF ComputeStep, Push, PushF, Arithmetic, Divide, DivideByZero,
    Shuffle, Unary, AbsInRange, AbsOverflow, Extreme, BitLogic, Shift, Compare,
    Constant, Output, Noop, Pick, PickTooDeep, Roll, RollTooDeep, Compute, Refuse,
    frames, LoopPaired
<1>7. CASE ControlStep
  BY <1>7 DEF ControlStep, Jump, JZ, Call, CallNoWord, Ret, Execute, ExecuteNoWord,
    Catch, Throw, Yield, Stop, Refuse, frames, LoopPaired
<1>8. CASE ReturnStep \/ HostStep
  BY <1>8 DEF ReturnStep, HostStep, WordGoesOn, WordReturns, ErrorEscapes,
    KeepRunning, RunEnds, UnwindThrow, UnwindError, Unwind, NoHandler,
    InterpretReturns, InterpretNumber, TextPush, InterpretWord, InterpretXt, StartRun, frames, LoopPaired
<1>9. CASE PastEnd \/ Decode \/ Underflow \/ Exhaust \/ Crashed \/ UNCHANGED vars
  BY <1>9 DEF PastEnd, Decode, Underflow, Exhaust, Crashed, vars, frames, LoopPaired
<1> QED
  BY <1>2, <1>3, <1>4, <1>5, <1>6, <1>7, <1>8, <1>9 DEF Next, VmStep

\* Loop parameters are pushed and dropped in pairs on every path.
THEOREM LoopsPaired == Spec => []LoopPaired
<1>1. Init => LoopPaired
  BY DEF Init, LoopPaired
<1>2. TypeOK /\ LoopPaired /\ [Next]_vars => LoopPaired'
  BY StepLoops
<1> QED
  BY <1>1, <1>2, TypeCorrect, PTL DEF Spec

=============================================================================
