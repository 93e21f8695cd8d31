--------------------------- MODULE CompilerProofs ---------------------------
(***************************************************************************)
(* Theorems about module Compiler: what a text may do to code that is      *)
(* compiled, whatever words it strings together.                           *)
(***************************************************************************)
EXTENDS Compiler, VmProofs

-----------------------------------------------------------------------------
(***************************************************************************)
(* Appending to a sequence of instructions, and patching it.               *)
(***************************************************************************)
IsRet(c, r) == r \in 0 .. (Len(c) - 1) /\ c[r + 1].op = "Ret"

\* No Ret at or after address a.
Clear(c, a) ==
  /\ a \in 0 .. Len(c)
  /\ \A r \in 0 .. (Len(c) - 1) : c[r + 1].op = "Ret" => r < a

\* The branch at address a of c is as BranchesStayInside wants it.
InsideAt(c, a) ==
  /\ a + 1 + c[a + 1].data \in 0 .. Len(c)
  /\ \A r \in 0 .. (Len(c) - 1) : c[r + 1].op = "Ret" =>
       /\ r < a => r < a + 1 + c[a + 1].data
       /\ a < r => a + 1 + c[a + 1].data <= r

Inside(c) ==
  \A a \in 0 .. (Len(c) - 1) : c[a + 1].op \in Branches => InsideAt(c, a)

\* c grows to d, its opcodes kept, and nothing up to a Ret changed.
Grows(c, d) ==
  /\ Len(c) <= Len(d)
  /\ \A a \in 0 .. (Len(c) - 1) : d[a + 1].op = c[a + 1].op
  /\ \A r \in 0 .. (Len(c) - 1) : c[r + 1].op = "Ret" =>
       \A a \in 0 .. r : d[a + 1] = c[a + 1]

\* ... and no Ret is new.
NoNewRet(c, d) ==
  \A r \in 0 .. (Len(d) - 1) : d[r + 1].op = "Ret" => r < Len(c)

LEMMA AppendCode ==
  ASSUME NEW c \in Seq(Instruction), NEW i \in Instruction, Inside(c),
         i.op \in Branches => /\ Len(c) + 1 + i.data \in 0 .. (Len(c) + 1)
                              /\ Clear(c, Len(c) + 1 + i.data)
                                   \/ Len(c) + 1 + i.data = Len(c) + 1
  PROVE  /\ Append(c, i) \in Seq(Instruction)
         /\ Len(Append(c, i)) = Len(c) + 1
         /\ Grows(c, Append(c, i))
         /\ i.op # "Ret" => NoNewRet(c, Append(c, i))
         /\ Inside(Append(c, i))
<1> DEFINE d == Append(c, i)
<1>1. /\ d \in Seq(Instruction) /\ Len(c) \in Nat /\ Len(d) = Len(c) + 1
      /\ \A k \in 1 .. Len(c) : d[k] = c[k]
      /\ d[Len(c) + 1] = i
  BY AppendProperties, LenProperties
<1> HIDE DEF d
<1>2. \A a \in 0 .. (Len(c) - 1) : a + 1 \in 1 .. Len(c) /\ d[a + 1] = c[a + 1]
  BY <1>1
<1>3. Grows(c, d)
  BY <1>1, <1>2 DEF Grows
<1>4. i.op # "Ret" => NoNewRet(c, d)
  BY <1>1 DEF NoNewRet
<1>5. \A k \in 1 .. Len(c) : c[k].data \in Int
  <2>1. \A k \in 1 .. Len(c) : c[k] \in Instruction
    BY ElementOfSeq
  <2> QED
    BY <2>1 DEF Instruction
<1>6. Inside(d)
  <2> SUFFICES ASSUME NEW a \in 0 .. Len(c), d[a + 1].op \in Branches
               PROVE  InsideAt(d, a)
    BY <1>1 DEF Inside
  <2>1. CASE a < Len(c)
    <3>1. InsideAt(c, a) /\ d[a + 1] = c[a + 1] /\ c[a + 1].data \in Int
      BY <1>1, <1>2, <1>5, <2>1 DEF Inside
    <3> QED
      BY <1>1, <1>2, <2>1, <3>1 DEF InsideAt
  <2>2. CASE a = Len(c)
    <3>1. d[a + 1] = i /\ i.op # "Ret" /\ i.data \in Int
      BY <1>1, <2>2 DEF Branches, Instruction
    <3> QED
      BY <1>1, <1>2, <2>2, <3>1 DEF InsideAt, Clear
  <2> QED
    BY <1>1, <2>1, <2>2
<1> QED
  BY <1>1, <1>3, <1>4, <1>6 DEF d

LEMMA PatchCode ==
  ASSUME NEW c \in Seq(Instruction), NEW a, Clear(c, a), Inside(c)
  PROVE  LET d == Patched(c, a, Delta(a, Len(c)))
         IN  /\ d \in Seq(Instruction) /\ Len(d) = Len(c)
             /\ Grows(c, d) /\ NoNewRet(c, d) /\ Inside(d)
<1> DEFINE d == Patched(c, a, Delta(a, Len(c)))
<1>1. Len(c) \in Nat /\ a \in 0 .. Len(c) /\ Delta(a, Len(c)) \in Int
  BY LenProperties DEF Clear, Delta
<1>2. \A k \in 1 .. Len(c) : c[k] \in Instruction /\ c[k].data \in Int
  <2>1. \A k \in 1 .. Len(c) : c[k] \in Instruction
    BY ElementOfSeq
  <2> QED
    BY <2>1 DEF Instruction
<1>3. CASE a = Len(c)
  <2>1. d = c
    BY <1>1, <1>3 DEF Patched
  <2> QED
    BY <1>1, <2>1 DEF Grows, NoNewRet
<1>4. CASE a < Len(c)
  <2>1. d = [c EXCEPT ![a + 1].data = Delta(a, Len(c))]
    BY <1>4 DEF Patched
  <2>2. a + 1 \in 1 .. Len(c)
    BY <1>1, <1>4
  <2>3. [c[a + 1] EXCEPT !.data = Delta(a, Len(c))] \in Instruction
    BY <1>1, <1>2, <2>2 DEF Instruction
  <2>4. /\ d \in Seq(Instruction) /\ Len(d) = Len(c)
        /\ \A k \in 1 .. Len(c) : k # a + 1 => d[k] = c[k]
        /\ d[a + 1] = [c[a + 1] EXCEPT !.data = Delta(a, Len(c))]
    BY <2>1, <2>2, <2>3, ExceptSeq
  <2> HIDE DEF d
  <2>5. /\ d[a + 1].op = c[a + 1].op /\ d[a + 1].data = Delta(a, Len(c))
    BY <1>2, <2>2, <2>4 DEF Instruction
  <2>6. \A k \in 1 .. Len(c) : d[k].op = c[k].op
    BY <2>4, <2>5
  <2>7. \A k \in 0 .. (Len(c) - 1) :
          /\ k + 1 \in 1 .. Len(c) /\ d[k + 1].op = c[k + 1].op
          /\ k # a => d[k + 1] = c[k + 1]
    BY <1>1, <2>4, <2>6
  <2>8. Grows(c, d) /\ NoNewRet(c, d)
    BY <1>1, <2>4, <2>7 DEF Grows, NoNewRet, Clear
  <2>9. Inside(d)
    <3> SUFFICES ASSUME NEW b \in 0 .. (Len(c) - 1), c[b + 1].op \in Branches
                 PROVE  InsideAt(d, b)
      BY <2>4, <2>7 DEF Inside
    <3>1. CASE b = a
      <4>1. b + 1 + d[b + 1].data = Len(c)
        BY <1>1, <2>5, <3>1 DEF Delta
      <4>2. \A r \in 0 .. (Len(c) - 1) : d[r + 1].op = "Ret" => r < a
        BY <2>7 DEF Clear
      <4> QED
        BY <1>1, <2>4, <3>1, <4>1, <4>2 DEF InsideAt
    <3>2. CASE b # a
      <4>1. InsideAt(c, b) /\ d[b + 1] = c[b + 1]
        BY <2>7, <3>2 DEF Inside
      <4> QED
        BY <2>4, <2>7, <4>1 DEF InsideAt
    <3> QED
      BY <3>1, <3>2
  <2> QED
    BY <2>4, <2>8, <2>9 DEF d
<1> QED
  BY <1>1, <1>3, <1>4

\* d is c with code added that ends no definition.
Safe(c, d) ==
  /\ d \in Seq(Instruction) /\ Inside(d)
  /\ Grows(c, d)
  /\ \A b : Clear(c, b) => Clear(d, b)

LEMMA SafeSame ==
  ASSUME NEW c \in Seq(Instruction), Inside(c)
  PROVE  Safe(c, c)
<1>1. Len(c) \in Nat
  BY LenProperties
<1> QED
  BY <1>1 DEF Safe, Grows

LEMMA ClearKept ==
  ASSUME NEW c \in Seq(Instruction), NEW d \in Seq(Instruction),
         Grows(c, d), NoNewRet(c, d), NEW b, Clear(c, b)
  PROVE  Clear(d, b)
<1>1. Len(c) \in Nat /\ Len(d) \in Nat /\ Len(c) <= Len(d) /\ b \in 0 .. Len(c)
  BY LenProperties DEF Grows, Clear
<1>2. \A r \in 0 .. (Len(d) - 1) : d[r + 1].op = "Ret" => r < b
  <2> SUFFICES ASSUME NEW r \in 0 .. (Len(d) - 1), d[r + 1].op = "Ret"
               PROVE  r < b
    OBVIOUS
  <2>1. r < Len(c)
    BY DEF NoNewRet
  <2>2. r \in 0 .. (Len(c) - 1) /\ d[r + 1].op = c[r + 1].op
    BY <1>1, <2>1 DEF Grows
  <2> QED
    BY <2>2 DEF Clear
<1> QED
  BY <1>1, <1>2 DEF Clear

LEMMA SafeAppend ==
  ASSUME NEW c \in Seq(Instruction), NEW i \in Instruction, Inside(c),
         i.op # "Ret",
         i.op \in Branches => \/ Clear(c, Len(c) + 1 + i.data)
                              \/ i.data = 0
  PROVE  /\ Safe(c, Append(c, i))
         /\ Len(Append(c, i)) = Len(c) + 1
         /\ Clear(Append(c, i), Len(c))
<1>1. Len(c) \in Nat
  BY LenProperties
<1>2. i.op \in Branches => /\ Len(c) + 1 + i.data \in 0 .. (Len(c) + 1)
                            /\ \/ Clear(c, Len(c) + 1 + i.data)
                               \/ Len(c) + 1 + i.data = Len(c) + 1
  BY <1>1 DEF Clear
<1>3. /\ Append(c, i) \in Seq(Instruction) /\ Len(Append(c, i)) = Len(c) + 1
      /\ Grows(c, Append(c, i)) /\ NoNewRet(c, Append(c, i)) /\ Inside(Append(c, i))
  BY <1>2, AppendCode
<1>4. Clear(c, Len(c))
  BY <1>1 DEF Clear
<1> QED
  BY <1>3, <1>4, ClearKept DEF Safe

LEMMA SafePatch ==
  ASSUME NEW c \in Seq(Instruction), NEW a, Clear(c, a), Inside(c)
  PROVE  Safe(c, Patched(c, a, Delta(a, Len(c))))
<1> DEFINE d == Patched(c, a, Delta(a, Len(c)))
<1>1. d \in Seq(Instruction) /\ Grows(c, d) /\ NoNewRet(c, d) /\ Inside(d)
  BY PatchCode
<1> HIDE DEF d
<1>2. Safe(c, d)
  BY <1>1, ClearKept DEF Safe
<1> QED
  BY <1>2 DEF d

LEMMA SafeTransitive ==
  ASSUME NEW c \in Seq(Instruction), NEW d, NEW e, Safe(c, d), Safe(d, e)
  PROVE  Safe(c, e)
<1>1. Len(c) \in Nat /\ Len(d) \in Nat /\ Len(c) <= Len(d)
  BY LenProperties DEF Safe, Grows
<1>2. \A a \in 0 .. (Len(c) - 1) :
        a \in 0 .. (Len(d) - 1) /\ d[a + 1].op = c[a + 1].op
                                /\ e[a + 1].op = d[a + 1].op
  BY <1>1 DEF Safe, Grows
<1>3. \A r \in 0 .. (Len(c) - 1) : c[r + 1].op = "Ret" =>
        \A a \in 0 .. r : e[a + 1] = c[a + 1]
  BY <1>2 DEF Safe, Grows
<1>4. Len(c) <= Len(e)
  BY <1>1, LenProperties DEF Safe, Grows
<1> QED
  BY <1>2, <1>3, <1>4 DEF Safe, Grows

-----------------------------------------------------------------------------
(***************************************************************************)
(* The control stack.                                                      *)
(***************************************************************************)
\* No definition has ended since an address of s was pushed.
Balanced(c, s) == \A k \in 1 .. Len(s) : Clear(c, s[k])

LEMMA BalancedKept ==
  ASSUME NEW c, NEW d, NEW s, Safe(c, d), Balanced(c, s)
  PROVE  Balanced(d, s)
  BY DEF Safe, Balanced

LEMMA BalancedPush ==
  ASSUME NEW c, NEW s \in Seq(Nat), NEW a \in Nat, Balanced(c, s), Clear(c, a)
  PROVE  Append(s, a) \in Seq(Nat) /\ Balanced(c, Append(s, a))
<1>1. /\ Append(s, a) \in Seq(Nat) /\ Len(s) \in Nat
      /\ Len(Append(s, a)) = Len(s) + 1
      /\ \A k \in 1 .. Len(s) : Append(s, a)[k] = s[k]
      /\ Append(s, a)[Len(s) + 1] = a
  BY AppendProperties, LenProperties
<1> QED
  BY <1>1 DEF Balanced

LEMMA BalancedPop ==
  ASSUME TextTypeOK, NEW c, Balanced(c, control_stack),
         NEW n \in Nat, n <= Len(control_stack)
  PROVE  /\ Popped(n) \in Seq(Nat) /\ Balanced(c, Popped(n))
         /\ \A k \in 1 .. n : Control(k) \in Nat /\ Clear(c, Control(k))
<1>1. control_stack \in Seq(Nat) /\ Len(control_stack) \in Nat
  BY LenProperties DEF TextTypeOK
<1>2. Len(control_stack) - n \in 0 .. Len(control_stack)
  BY <1>1
<1>3. /\ Popped(n) \in Seq(Nat) /\ Len(Popped(n)) = Len(control_stack) - n
      /\ \A k \in 1 .. (Len(control_stack) - n) : Popped(n)[k] = control_stack[k]
  BY <1>1, <1>2, PrefixType DEF Popped
<1>4. Balanced(c, Popped(n))
  BY <1>1, <1>3 DEF Balanced
<1>5. ASSUME NEW k \in 1 .. n
      PROVE  Control(k) \in Nat /\ Clear(c, Control(k))
  <2>1. Len(control_stack) - k + 1 \in 1 .. Len(control_stack)
    BY <1>1
  <2> QED
    BY <1>1, <2>1, ElementOfSeq DEF Control, Balanced
<1> QED
  BY <1>3, <1>4, <1>5

LEMMA InsType ==
  ASSUME NEW op \in PrimitiveOps \cup CodeOps, NEW v \in Int
  PROVE  Ins(op, v) \in Instruction /\ Ins(op, v).op = op /\ Ins(op, v).data = v
  BY DEF Ins, Instruction

LEMMA InsBranch ==
  ASSUME NEW op \in Branches, NEW v \in Int
  PROVE  /\ Ins(op, v) \in Instruction /\ Ins(op, v).op # "Ret"
         /\ Ins(op, v).op = op /\ Ins(op, v).data = v
<1>1. op \in CodeOps /\ op # "Ret"
  BY DEF Branches, CodeOps
<1> QED
  BY <1>1, InsType

\* A forward branch, its length still to come.
LEMMA OpenBranch ==
  ASSUME NEW c \in Seq(Instruction), Inside(c), NEW op \in Branches \cup {"Do"}
  PROVE  /\ Safe(c, Append(c, Ins(op, 0)))
         /\ Len(Append(c, Ins(op, 0))) = Len(c) + 1
         /\ Clear(Append(c, Ins(op, 0)), Len(c))
<1>1. op \in CodeOps /\ op # "Ret"
  BY DEF Branches, CodeOps
<1>2. Ins(op, 0) \in Instruction /\ Ins(op, 0).op # "Ret" /\ Ins(op, 0).data = 0
  BY <1>1, InsType
<1> QED
  BY <1>2, SafeAppend

\* A branch back to an address of the definition being compiled.
LEMMA BackBranch ==
  ASSUME NEW c \in Seq(Instruction), Inside(c), NEW op \in Branches,
         NEW a \in Nat, Clear(c, a)
  PROVE  /\ Safe(c, Append(c, Ins(op, Delta(Len(c), a))))
         /\ Len(Append(c, Ins(op, Delta(Len(c), a)))) = Len(c) + 1
<1>1. Len(c) \in Nat /\ Delta(Len(c), a) \in Int
      /\ Len(c) + 1 + Delta(Len(c), a) = a
  BY LenProperties DEF Delta
<1> DEFINE i == Ins(op, Delta(Len(c), a))
<1>2. i \in Instruction /\ i.op # "Ret" /\ i.data = Delta(Len(c), a)
  BY <1>1, InsBranch
<1> HIDE DEF i
<1>3. Safe(c, Append(c, i)) /\ Len(Append(c, i)) = Len(c) + 1
  BY <1>1, <1>2, SafeAppend
<1> QED
  BY <1>3 DEF i

\* An instruction that is neither a branch nor the end of a definition.
LEMMA PlainEmit ==
  ASSUME NEW c \in Seq(Instruction), Inside(c), NEW v \in Int,
         NEW op \in PrimitiveOps \cup {"Push", "PushF", "Call"}
  PROVE  /\ Safe(c, Append(c, Ins(op, v)))
         /\ Len(Append(c, Ins(op, v))) = Len(c) + 1
<1>1. op \in PrimitiveOps \cup CodeOps /\ op # "Ret" /\ op \notin Branches
  BY DEF Branches, CodeOps, PrimitiveOps, ArithmeticOps, DivisionOps, ShuffleOps,
    UnaryOps, BitOps, ShiftOps, ExtremeOps, CompareOps, ConstantOps, OutputOps,
    MemoryOps
<1>2. /\ Ins(op, v) \in Instruction /\ Ins(op, v).op # "Ret"
      /\ Ins(op, v).op \notin Branches
  BY <1>1, InsType
<1> QED
  BY <1>2, SafeAppend

-----------------------------------------------------------------------------
(***************************************************************************)
(* The invariant: the addresses on the control stack belong to the         *)
(* definition that is being compiled.                                      *)
(***************************************************************************)
WordsBegin ==
  \A i \in 0 .. (Len(dict) - 1) :
    dict[i + 1].kind = "word" => dict[i + 1].addr <= Len(code)

CompilerInv ==
  /\ Balanced(code, control_stack)
  /\ NothingLeftOpen
  /\ Inside(code)
  /\ WordsBegin
  /\ VisibleWordsEnd

\* What a round of the compiler may do to the code and the control stack.
CompilerRound ==
  /\ Safe(code, code')
  /\ control_stack' \in Seq(Nat)
  /\ Balanced(code', control_stack')

LEMMA OpeningWords ==
  ASSUME TypeOK, TextTypeOK, CompilerInv,
         If \/ Begin \/ While \/ CompileDo
  PROVE  CompilerRound
<1>1. /\ code \in Seq(Instruction) /\ Len(code) \in Nat /\ Inside(code)
      /\ control_stack \in Seq(Nat) /\ Balanced(code, control_stack)
  BY LenProperties DEF TypeOK, StoreType, TextTypeOK, CompilerInv
<1>2. control_stack' = Append(control_stack, Len(code))
  BY DEF If, Begin, While, CompileDo, Compiled
<1>3. Clear(code, Len(code))
  BY <1>1 DEF Clear
<1>4. Safe(code, code') /\ Clear(code', Len(code))
  <2>1. CASE Begin
    BY <1>1, <1>3, <2>1, SafeSame DEF Begin, Compiled
  <2>2. CASE If \/ While \/ CompileDo
    <3>1. PICK op \in Branches \cup {"Do"} : code' = Append(code, Ins(op, 0))
      BY <2>2 DEF If, While, CompileDo, Compiled, Branches
    <3> QED
      BY <1>1, <3>1, OpenBranch
  <2> QED
    BY <2>1, <2>2
<1> QED
  BY <1>1, <1>2, <1>4, BalancedKept, BalancedPush DEF CompilerRound

LEMMA ClosingWords ==
  ASSUME TypeOK, TextTypeOK, CompilerInv,
         Then \/ Until \/ CompileLoop \/ CompilePLoop
  PROVE  CompilerRound
<1>1. /\ code \in Seq(Instruction) /\ Len(code) \in Nat /\ Inside(code)
      /\ Balanced(code, control_stack)
  BY LenProperties DEF TypeOK, StoreType, CompilerInv
<1>2. control_stack' = Popped(1) /\ 1 <= Len(control_stack)
  BY DEF Then, Until, CompileLoop, CompilePLoop, Compiled, Compiling, Needs
<1>3. /\ Popped(1) \in Seq(Nat) /\ Balanced(code, Popped(1))
      /\ Control(1) \in Nat /\ Clear(code, Control(1))
  BY <1>1, <1>2, BalancedPop
<1>4. Safe(code, code')
  <2>1. CASE Then
    BY <1>1, <1>3, <2>1, SafePatch DEF Then, Compiled
  <2>2. CASE Until \/ CompileLoop \/ CompilePLoop
    <3>1. PICK op \in Branches :
            code' = Append(code, Ins(op, Delta(Len(code), Control(1))))
      BY <2>2 DEF Until, CompileLoop, CompilePLoop, Compiled, Branches
    <3> QED
      BY <1>1, <1>3, <3>1, BackBranch
  <2> QED
    BY <2>1, <2>2
<1> QED
  BY <1>2, <1>3, <1>4, BalancedKept DEF CompilerRound

LEMMA ElseWord ==
  ASSUME TypeOK, TextTypeOK, CompilerInv, Else
  PROVE  CompilerRound
<1> DEFINE c == Append(code, Ins("Jump", 0))
<1>1. /\ code \in Seq(Instruction) /\ Len(code) \in Nat /\ Inside(code)
      /\ Balanced(code, control_stack) /\ "Jump" \in Branches
  BY LenProperties DEF TypeOK, StoreType, CompilerInv, Branches
<1>2. Safe(code, c) /\ Len(c) = Len(code) + 1 /\ Clear(c, Len(code))
  BY <1>1, OpenBranch
<1>3. /\ code' = Patched(c, Control(1), Delta(Control(1), Len(code) + 1))
      /\ control_stack' = Append(Popped(1), Len(code))
      /\ 1 <= Len(control_stack)
  BY DEF Else, Compiled, Compiling, Needs
<1>4. /\ Popped(1) \in Seq(Nat) /\ Balanced(code, Popped(1))
      /\ Clear(code, Control(1))
  BY <1>1, <1>3, BalancedPop
<1> HIDE DEF c
<1>5. c \in Seq(Instruction) /\ Inside(c) /\ Clear(c, Control(1))
  BY <1>2, <1>4 DEF Safe
<1>6. Safe(c, code')
  BY <1>2, <1>3, <1>5, SafePatch
<1>7. Clear(code', Len(code))
  BY <1>2, <1>6 DEF Safe
<1>8. Safe(code, code')
  BY <1>1, <1>2, <1>6, SafeTransitive
<1> QED
  BY <1>1, <1>3, <1>4, <1>7, <1>8, BalancedKept, BalancedPush DEF CompilerRound

LEMMA RepeatWord ==
  ASSUME TypeOK, TextTypeOK, CompilerInv, Repeat
  PROVE  CompilerRound
<1> DEFINE c == Append(code, Ins("Jump", Delta(Len(code), Control(2))))
<1>1. /\ code \in Seq(Instruction) /\ Len(code) \in Nat /\ Inside(code)
      /\ Balanced(code, control_stack) /\ "Jump" \in Branches
  BY LenProperties DEF TypeOK, StoreType, CompilerInv, Branches
<1>2. /\ code' = Patched(c, Control(1), Delta(Control(1), Len(code) + 1))
      /\ control_stack' = Popped(2)
      /\ 2 <= Len(control_stack)
  BY DEF Repeat, Compiled, Compiling, Needs
<1>3. /\ Popped(2) \in Seq(Nat) /\ Balanced(code, Popped(2))
      /\ Clear(code, Control(1))
      /\ Control(2) \in Nat /\ Clear(code, Control(2))
  BY <1>1, <1>2, BalancedPop
<1>4. Safe(code, c) /\ Len(c) = Len(code) + 1
  BY <1>1, <1>3, BackBranch
<1> HIDE DEF c
<1>5. c \in Seq(Instruction) /\ Inside(c) /\ Clear(c, Control(1))
  BY <1>3, <1>4 DEF Safe
<1>6. Safe(c, code')
  BY <1>2, <1>4, <1>5, SafePatch
<1>7. Safe(code, code')
  BY <1>1, <1>4, <1>6, SafeTransitive
<1> QED
  BY <1>2, <1>3, <1>7, BalancedKept DEF CompilerRound

LEMMA FailingWords ==
  ASSUME TypeOK, TextTypeOK, CompilerInv, Unstructured \/ NotCompiling
  PROVE  CompilerRound
<1>1. /\ code \in Seq(Instruction) /\ Inside(code)
      /\ control_stack \in Seq(Nat) /\ Balanced(code, control_stack)
  BY DEF TypeOK, StoreType, TextTypeOK, CompilerInv
<1>2. CASE Unstructured
  <2>1. control_stack' = <<>> /\ code' \in {code, Append(code, Ins("JZ", 0))}
    BY <1>2 DEF Unstructured
  <2>2. Safe(code, code')
    BY <1>1, <2>1, SafeSame, OpenBranch DEF Branches
  <2> QED
    BY <2>1, <2>2 DEF CompilerRound, Balanced
<1>3. CASE NotCompiling
  BY <1>1, <1>3, SafeSame DEF NotCompiling, text, CompilerRound
<1> QED
  BY <1>2, <1>3

LEMMA StructureRound ==
  ASSUME TypeOK, TextTypeOK, CompilerInv, StructureStep
  PROVE  CompilerRound
  BY OpeningWords, ClosingWords, ElseWord, RepeatWord, FailingWords
  DEF StructureStep

-----------------------------------------------------------------------------
(***************************************************************************)
(* The other rounds, and the code that runs.                               *)
(***************************************************************************)
\* Words that compile an instruction and open or close nothing.
Emitting(name) ==
  \/ Postpone(name) \/ BracketTick(name) \/ CompileName(name)
  \/ Literal \/ CompileNumber \/ CompileFloat

\* Words that compile nothing.
Passing(name) ==
  \/ SemicolonUnbalanced \/ PostponeUnknown(name) \/ Tick(name)
  \/ TickUnknown(name) \/ InterpretName(name) \/ UnknownName(name)
  \/ InterpretLiteral \/ InterpretFloat

LEMMA KnownNames ==
  ASSUME TypeOK, TextTypeOK, NEW name, Known(name)
  PROVE  /\ words[name] \in 0 .. (Len(dict) - 1)
         /\ dict[words[name] + 1] \in Entry
<1>1. words[name] \in Nat /\ words[name] < Len(dict) /\ Len(dict) \in Nat
  BY LenProperties DEF Known, TextTypeOK, TypeOK, StoreType
<1>2. words[name] + 1 \in 1 .. Len(dict)
  BY <1>1
<1> QED
  BY <1>1, <1>2, ElementOfSeq DEF TypeOK, StoreType

LEMMA EmittingRound ==
  ASSUME TypeOK, TextTypeOK, CompilerInv, NEW name \in Names, Emitting(name)
  PROVE  Safe(code, code') /\ UNCHANGED <<dict, text>>
<1>1. code \in Seq(Instruction) /\ Inside(code)
  BY DEF TypeOK, StoreType, CompilerInv
<1>2. CASE Postpone(name)
  <2> DEFINE c == Append(code, Ins("Push", words[name]))
  <2>1. words[name] \in Int
    BY <1>2, KnownNames DEF Postpone
  <2>2. Safe(code, c)
    BY <1>1, <2>1, PlainEmit
  <2>3. CASE Known(COMPILE_COMMA)
    <3>1. words[COMPILE_COMMA] \in Int
      BY <2>3, KnownNames
    <3>2. c \in Seq(Instruction) /\ Inside(c)
      BY <2>2 DEF Safe
    <3>3. code' = Append(c, Ins("Call", words[COMPILE_COMMA]))
      BY <1>2, <2>3 DEF Postpone
    <3> HIDE DEF c
    <3>4. Safe(c, code')
      BY <3>1, <3>2, <3>3, PlainEmit
    <3>5. Safe(code, code')
      BY <1>1, <2>2, <3>4, SafeTransitive
    <3> QED
      BY <1>2, <3>5 DEF Postpone
  <2>4. CASE ~Known(COMPILE_COMMA)
    BY <1>2, <2>2, <2>4 DEF Postpone
  <2> QED
    BY <2>3, <2>4
<1>3. CASE BracketTick(name)
  <2>1. words[name] \in Int
    BY <1>3, KnownNames DEF BracketTick
  <2> QED
    BY <1>1, <1>3, <2>1, PlainEmit DEF BracketTick, Emit
<1>4. CASE CompileName(name)
  <2>1. words[name] \in Int /\ dict[words[name] + 1].op \in PrimitiveOps
    BY <1>4, KnownNames DEF CompileName, Entry
  <2>2. \/ code' = Append(code, Ins(dict[words[name] + 1].op, 0))
        \/ code' = Append(code, Ins("Call", words[name]))
    BY <1>4 DEF CompileName, Emit
  <2>3. Safe(code, code')
    <3>1. CASE code' = Append(code, Ins("Call", words[name]))
      BY <1>1, <2>1, <3>1, PlainEmit
    <3>2. CASE code' = Append(code, Ins(dict[words[name] + 1].op, 0))
      BY <1>1, <2>1, <3>2, PlainEmit
    <3> QED
      BY <2>2, <3>1, <3>2
  <2> QED
    BY <1>4, <2>3 DEF CompileName
<1>5. CASE Literal
  <2>1. code' \in {code, Append(code, Ins("Push", Arg(1)))} /\ UNCHANGED <<dict, text>>
    BY <1>5 DEF Literal, Emit
  <2>2. CASE d_depth = 0
    BY <1>1, <1>5, <2>1, <2>2, SafeSame DEF Literal
  <2>3. CASE d_depth # 0
    <3>1. 1 \in 1 .. d_depth
      BY <2>3, StackAssumption DEF TypeOK, DataType
    <3>2. Arg(1) \in Int
      BY <3>1, ArgType, SmallWords
    <3> QED
      BY <1>1, <2>1, <3>2, PlainEmit, SafeSame
  <2> QED
    BY <2>2, <2>3
<1>6. CASE CompileNumber
  <2>1. PICK v \in Literals : code' = Append(code, Ins("Push", v))
    BY <1>6 DEF CompileNumber, Emit
  <2>2. v \in Int
    BY WordAssumption, SmallWords
  <2> QED
    BY <1>1, <1>6, <2>1, <2>2, PlainEmit DEF CompileNumber
<1>7. CASE CompileFloat
  BY <1>1, <1>7, PlainEmit DEF CompileFloat, Emit
<1> QED
  BY <1>2, <1>3, <1>4, <1>5, <1>6, <1>7 DEF Emitting

LEMMA PassingRound ==
  ASSUME NEW name, Passing(name)
  PROVE  UNCHANGED <<code, dict, text>>
  BY DEF Passing, SemicolonUnbalanced, PostponeUnknown, Tick, TickUnknown,
    InterpretName, InterpretXt, UnknownName, InterpretLiteral, InterpretNumber,
    InterpretFloat, store

\* Running code adds calls at the end of the code, and nothing else.
LEMMA RunningCode ==
  ASSUME TypeOK, Inside(code), VmStep \/ StartRun \/ Crashed
  PROVE  Safe(code, code') /\ UNCHANGED dict
<1>1. code \in Seq(Instruction)
  BY DEF TypeOK, StoreType
<1>2. CASE PlainStep
  BY <1>1, <1>2, PlainSteps, SafeSame
<1>3. CASE ReturnStep \/ Decode \/ Call \/ Ret \/ Execute \/ StartRun \/ Crashed
  <2>1. UNCHANGED <<code, dict>>
    BY <1>3 DEF ReturnStep, WordGoesOn, WordReturns, ErrorEscapes, KeepRunning,
      RunEnds, NoHandler, InterpretReturns, UnwindThrow, UnwindError, Unwind,
      Decode, Call, Ret, Execute, StartRun, Crashed, store, vars
  <2> QED
    BY <1>1, <2>1, SafeSame
<1>4. CASE CompileComma
  <2>1. /\ code' = Append(code, Ins("Call", Arg(1))) /\ UNCHANGED dict
        /\ Executing({"CompileComma"})
    BY <1>4 DEF CompileComma, Ins
  <2>2. Arity(instr.op) = 1
    BY <2>1, Arities DEF Executing, TakesOne
  <2>3. Arg(1) \in Int
    <3>1. Arg(1) \in Val
      BY <2>1, <2>2, OperandsType
    <3> QED
      BY <3>1, SmallWords
  <2> QED
    BY <1>1, <2>1, <2>3, PlainEmit
<1> QED
  BY <1>2, <1>3, <1>4 DEF VmStep, PlainStep, MemoryStep, ControlStep

-----------------------------------------------------------------------------
(***************************************************************************)
(* Types.                                                                  *)
(***************************************************************************)
LEMMA AnswerType ==
  ASSUME TypeOK, CanariesIntact, NEW status \in Status, Answer(status),
         code' \in Seq(Instruction), dict' \in Seq(Entry),
         DataType', CanariesIntact'
  PROVE  TypeOK' /\ CanariesIntact'
<1>1. StoreType' /\ FramesType'
  BY DEF Answer, frames, TypeOK, StoreType, FramesType
<1>2. result' \in [status : Status, code : Val]
  BY SmallWords DEF Answer
<1>3. ControlType'
  BY <1>2 DEF Answer, caller, TypeOK, ControlType
<1> QED
  BY <1>1, <1>3 DEF TypeOK

LEMMA QuietAnswerType ==
  ASSUME TypeOK, CanariesIntact, Answer("Done") \/ Answer("Err"), UNCHANGED data,
         code' \in Seq(Instruction), dict' \in Seq(Entry)
  PROVE  TypeOK' /\ CanariesIntact'
<1>1. DataType' /\ CanariesIntact'
  BY KeepsType
<1>2. "Done" \in Status /\ "Err" \in Status
  BY DEF Status
<1> QED
  BY <1>1, <1>2, AnswerType

LEMMA EmittingType ==
  ASSUME TypeOK, CanariesIntact, TextTypeOK, CompilerInv,
         NEW name \in Names, Emitting(name)
  PROVE  TypeOK' /\ CanariesIntact'
<1>1. code' \in Seq(Instruction) /\ dict' \in Seq(Entry)
  BY EmittingRound DEF Safe, TypeOK, StoreType
<1>2. CASE Emitting(name) /\ ~Literal
  <2>1. UNCHANGED data /\ (Answer("Done") \/ Answer("Err"))
    BY <1>2 DEF Emitting, Postpone, BracketTick, CompileName, CompileNumber,
      CompileFloat
  <2> QED
    BY <1>1, <2>1, QuietAnswerType
<1>3. CASE Literal
  <2>1. CASE d_depth = 0
    <3>1. UNCHANGED data /\ Answer("Err")
      BY <1>3, <2>1 DEF Literal, data
    <3> QED
      BY <1>1, <3>1, QuietAnswerType
  <2>2. CASE d_depth # 0
    <3>1. d_depth' = d_depth - 1 /\ UNCHANGED d_stack /\ Answer("Done")
      BY <1>3, <2>2 DEF Literal
    <3>2. DataType' /\ CanariesIntact'
      BY <2>2, <3>1, StackAssumption DEF TypeOK, DataType, CanariesIntact
    <3> QED
      BY <1>1, <3>1, <3>2, AnswerType DEF Status
  <2> QED
    BY <2>1, <2>2
<1> QED
  BY <1>2, <1>3

LEMMA PassingType ==
  ASSUME TypeOK, CanariesIntact, TextTypeOK, NEW name \in Names, Passing(name)
  PROVE  TypeOK' /\ CanariesIntact'
<1>1. CASE SemicolonUnbalanced \/ PostponeUnknown(name) \/ TickUnknown(name)
             \/ UnknownName(name)
  <2>1. /\ UNCHANGED <<code, dict>> /\ UNCHANGED data
        /\ Answer("Done") \/ Answer("Err")
    BY <1>1 DEF SemicolonUnbalanced, PostponeUnknown, TickUnknown, UnknownName
  <2>2. code' \in Seq(Instruction) /\ dict' \in Seq(Entry)
    BY <2>1 DEF TypeOK, StoreType
  <2> QED
    BY <2>1, <2>2, QuietAnswerType
<1>2. CASE Tick(name)
  <2>1. words[name] \in Int
    BY <1>2, KnownNames DEF Tick
  <2>2. Wrap(words[name]) \in Val
    BY <2>1, WrapType
  <2> QED
    BY <1>2, <2>2, TextPushType DEF Tick
<1>3. CASE InterpretName(name)
  BY <1>3, KnownNames, InterpretXtType DEF InterpretName
<1>4. CASE InterpretLiteral
  BY <1>4, InterpretType DEF InterpretLiteral
<1>5. CASE InterpretFloat
  <2>1. /\ f_depth' = Least(f_depth + 1, FLimit)
        /\ result' = [status |-> IF f_depth < FLimit THEN "Done" ELSE "Err", code |-> 0]
        /\ UNCHANGED store /\ UNCHANGED data
        /\ UNCHANGED <<at, instr, ip, caller, r_stack, c_stack, loop_stack, exception_stack>>
    BY <1>5 DEF InterpretFloat
  <2>2. FramesType'
    BY <2>1, StackAssumption DEF Least, TypeOK, FramesType
  <2>3. ControlType'
    BY <2>1, SmallWords DEF TypeOK, ControlType, caller, Status
  <2> QED
    BY <2>1, <2>2, <2>3, KeepsType DEF TypeOK
<1> QED
  BY <1>1, <1>2, <1>3, <1>4, <1>5 DEF Passing

-----------------------------------------------------------------------------
(***************************************************************************)
(* The inductive step.                                                     *)
(***************************************************************************)
StaysFinished ==
  \A r \in 0 .. (Len(code) - 1) : HasOp(r, {"Ret"}) =>
    \A a \in 0 .. r : code'[a + 1] = code[a + 1]

LEMMA GrowsFinished ==
  ASSUME Grows(code, code')
  PROVE  StaysFinished
  BY DEF Grows, StaysFinished, HasOp

\* The dictionary's part of the invariant holds while code grows.
LEMMA WordsKept ==
  ASSUME TypeOK, CompilerInv, Grows(code, code'), code' \in Seq(Instruction),
         UNCHANGED <<dict, hidden>>
  PROVE  WordsBegin' /\ VisibleWordsEnd'
<1>1. /\ Len(code) \in Nat /\ Len(code') \in Nat /\ Len(code) <= Len(code')
      /\ Len(dict) \in Nat
  BY LenProperties DEF TypeOK, StoreType, Grows
<1>2. \A i \in 0 .. (Len(dict) - 1) : dict[i + 1].addr \in Nat
  <2>1. \A k \in 1 .. Len(dict) : dict[k] \in Entry
    BY ElementOfSeq DEF TypeOK, StoreType
  <2> QED
    BY <1>1, <2>1 DEF Entry
<1>3. WordsBegin'
  BY <1>1, <1>2 DEF CompilerInv, WordsBegin
<1>4. ASSUME NEW r \in 0 .. (Len(code) - 1), HasOp(r, {"Ret"})
      PROVE  r \in 0 .. (Len(code') - 1) /\ HasOp(r, {"Ret"})'
  BY <1>1, <1>4 DEF Grows, HasOp
<1>5. VisibleWordsEnd'
  BY <1>4 DEF CompilerInv, VisibleWordsEnd
<1> QED
  BY <1>3, <1>5

LEMMA RoundKeeps ==
  ASSUME TypeOK, TextTypeOK, CompilerInv, CompilerRound,
         UNCHANGED <<dict, compiling, words, hidden, latest_word>>,
         compiling \/ control_stack' = control_stack
  PROVE  TextTypeOK' /\ CompilerInv' /\ Grows(code, code')
<1>1. /\ code' \in Seq(Instruction) /\ Grows(code, code')
      /\ control_stack' \in Seq(Nat)
      /\ Balanced(code', control_stack') /\ Inside(code')
  BY DEF CompilerRound, Safe
<1>2. TextTypeOK'
  BY <1>1 DEF TextTypeOK
<1>3. WordsBegin' /\ VisibleWordsEnd'
  BY <1>1, WordsKept
<1>4. NothingLeftOpen'
  BY DEF CompilerInv, NothingLeftOpen
<1>5. Balanced(code, control_stack)' /\ Inside(code)'
  BY <1>1 DEF Balanced, Inside, InsideAt, Clear
<1> QED
  BY <1>1, <1>2, <1>3, <1>4, <1>5 DEF CompilerInv

\* A step that opens and closes nothing is a round of the compiler.
LEMMA QuietRound ==
  ASSUME TypeOK, TextTypeOK, CompilerInv, Safe(code, code'), UNCHANGED <<dict, text>>
  PROVE  TextTypeOK' /\ CompilerInv' /\ Grows(code, code')
<1>1. UNCHANGED <<compiling, control_stack, words, hidden, latest_word>>
  BY DEF text
<1>2. CompilerRound
  BY <1>1, BalancedKept DEF CompilerRound, CompilerInv, TextTypeOK
<1> QED
  BY <1>1, <1>2, RoundKeeps

LEMMA ColonKeeps ==
  ASSUME TypeOK, CanariesIntact, TextTypeOK, CompilerInv,
         NEW name \in Names, Colon(name)
  PROVE  TypeOK' /\ CanariesIntact' /\ TextTypeOK' /\ CompilerInv' /\ Grows(code, code')
<1>1. /\ dict' = Append(dict, Word(Len(code)))
      /\ words' = [n \in DOMAIN words \cup {name} |->
                     IF n = name THEN Len(dict) ELSE words[n]]
      /\ latest_word' = Len(dict) /\ hidden' = hidden \cup {Len(dict)}
      /\ compiling' = TRUE /\ UNCHANGED <<code, control_stack>> /\ UNCHANGED data
      /\ Answer("Done")
  BY DEF Colon, Named
<1>2. code \in Seq(Instruction) /\ Len(code) \in Nat /\ Len(dict) \in Nat
  BY LenProperties DEF TypeOK, StoreType
<1>3. Word(Len(code)) \in Entry /\ Word(Len(code)).addr = Len(code)
  BY <1>2 DEF Word, Entry, PrimitiveOps
<1> HIDE DEF Word
<1>4. /\ dict' \in Seq(Entry) /\ Len(dict') = Len(dict) + 1
      /\ \A k \in 1 .. Len(dict) : dict'[k] = dict[k]
      /\ dict'[Len(dict) + 1] = Word(Len(code))
  BY <1>1, <1>3, AppendProperties DEF TypeOK, StoreType
<1>5. TypeOK' /\ CanariesIntact'
  BY <1>1, <1>2, <1>4, QuietAnswerType
<1>6. TextTypeOK'
  <2>1. /\ words' \in [DOMAIN words' -> Nat] /\ DOMAIN words' \subseteq Names
        /\ \A n \in DOMAIN words' : words'[n] < Len(dict')
    BY <1>1, <1>2, <1>4 DEF TextTypeOK
  <2>2. hidden' \subseteq 0 .. (Len(dict') - 1) /\ latest_word' \in -1 .. (Len(dict') - 1)
    BY <1>1, <1>2, <1>4 DEF TextTypeOK
  <2> QED
    BY <1>1, <2>1, <2>2 DEF TextTypeOK
<1>7. \A i \in 0 .. (Len(dict') - 1) :
        \/ i \in 0 .. (Len(dict) - 1) /\ dict'[i + 1] = dict[i + 1]
        \/ i = Len(dict) /\ dict'[i + 1].addr = Len(code) /\ i \in hidden'
  BY <1>1, <1>2, <1>3, <1>4
<1>8. WordsBegin'
  BY <1>1, <1>2, <1>7 DEF CompilerInv, WordsBegin
<1>9. VisibleWordsEnd'
  BY <1>1, <1>7 DEF CompilerInv, VisibleWordsEnd, HasOp
<1>10. Balanced(code, control_stack)' /\ Inside(code)' /\ NothingLeftOpen'
  BY <1>1 DEF CompilerInv, Balanced, Inside, InsideAt, Clear, NothingLeftOpen
<1>11. Grows(code, code')
  BY <1>1, <1>2 DEF Grows
<1> QED
  BY <1>5, <1>6, <1>8, <1>9, <1>10, <1>11 DEF CompilerInv

LEMMA SemicolonKeeps ==
  ASSUME TypeOK, CanariesIntact, TextTypeOK, CompilerInv, Semicolon
  PROVE  TypeOK' /\ CanariesIntact' /\ TextTypeOK' /\ CompilerInv' /\ Grows(code, code')
<1> DEFINE ret == Ins("Ret", 0)
<1>1. /\ code' = Append(code, ret) /\ hidden' = hidden \ {latest_word}
      /\ compiling' = FALSE /\ control_stack = <<>>
      /\ UNCHANGED <<dict, control_stack, words, latest_word>> /\ UNCHANGED data
      /\ Answer("Done")
  BY DEF Semicolon, Emit
<1>2. code \in Seq(Instruction) /\ Inside(code) /\ Len(code) \in Nat
  BY LenProperties DEF TypeOK, StoreType, CompilerInv
<1>3. ret \in Instruction /\ ret.op = "Ret" /\ ret.op \notin Branches
  <2>1. "Ret" \in CodeOps /\ "Ret" \notin Branches
    BY DEF CodeOps, Branches
  <2> QED
    BY <2>1, InsType
<1> HIDE DEF ret
<1>4. /\ code' \in Seq(Instruction) /\ Len(code') = Len(code) + 1
      /\ Grows(code, code') /\ Inside(code')
      /\ code'[Len(code) + 1] = ret
  BY <1>1, <1>2, <1>3, AppendCode, AppendProperties
<1>5. TypeOK' /\ CanariesIntact'
  BY <1>1, <1>4, QuietAnswerType DEF TypeOK, StoreType
<1>6. TextTypeOK'
  BY <1>1 DEF TextTypeOK
<1>7. \A i \in 0 .. (Len(dict) - 1) : dict[i + 1].kind = "word" =>
        dict[i + 1].addr \in 0 .. Len(code)
  <2>1. \A i \in 0 .. (Len(dict) - 1) : i + 1 \in 1 .. Len(dict)
    BY LenProperties DEF TypeOK, StoreType
  <2>2. \A i \in 0 .. (Len(dict) - 1) : dict[i + 1] \in Entry
    BY <2>1, ElementOfSeq DEF TypeOK, StoreType
  <2> QED
    BY <1>2, <2>2 DEF CompilerInv, WordsBegin, Entry
<1>8. PICK r \in 0 .. (Len(code') - 1) : r = Len(code) /\ code'[r + 1].op = "Ret"
  BY <1>2, <1>3, <1>4
<1>9. WordsBegin' /\ VisibleWordsEnd'
  <2>1. WordsBegin'
    BY <1>1, <1>2, <1>4, <1>7 DEF WordsBegin
  <2>2. HasOp(r, {"Ret"})'
    BY <1>8 DEF HasOp
  <2>3. \A i \in 0 .. (Len(dict) - 1) :
          dict[i + 1].kind = "word" => dict[i + 1].addr <= r
    BY <1>2, <1>7, <1>8
  <2>4. VisibleWordsEnd'
    BY <1>1, <2>2, <2>3 DEF VisibleWordsEnd
  <2> QED
    BY <2>1, <2>4
<1>10. Balanced(code, control_stack)' /\ Inside(code)' /\ NothingLeftOpen'
  <2>1. control_stack' = <<>> /\ Len(control_stack') = 0
    BY <1>1
  <2>2. Balanced(code, control_stack)' /\ NothingLeftOpen'
    BY <2>1 DEF Balanced, NothingLeftOpen
  <2>3. Inside(code)'
    BY <1>4 DEF Inside, InsideAt
  <2> QED
    BY <2>2, <2>3
<1> QED
  BY <1>4, <1>5, <1>6, <1>9, <1>10 DEF CompilerInv

LEMMA StructureKeeps ==
  ASSUME TypeOK, CanariesIntact, TextTypeOK, CompilerInv, StructureStep
  PROVE  TypeOK' /\ CanariesIntact' /\ TextTypeOK' /\ CompilerInv' /\ Grows(code, code')
<1>1. /\ UNCHANGED <<dict, compiling, words, hidden, latest_word>> /\ UNCHANGED data
      /\ Answer("Done") \/ Answer("Err")
      /\ compiling \/ control_stack' = control_stack
  BY DEF StructureStep, If, Then, Else, Begin, Until, While, Repeat, CompileDo,
    CompileLoop, CompilePLoop, Unstructured, NotCompiling, Compiled, Compiling, text
<1>2. CompilerRound
  BY StructureRound
<1>3. code' \in Seq(Instruction) /\ dict' \in Seq(Entry)
  BY <1>1, <1>2 DEF CompilerRound, Safe, TypeOK, StoreType
<1> QED
  BY <1>1, <1>2, <1>3, QuietAnswerType, RoundKeeps

LEMMA CompilerNext ==
  ASSUME TypeOK, CanariesIntact, TextTypeOK, CompilerInv, [CNext]_cvars
  PROVE  TypeOK' /\ CanariesIntact' /\ TextTypeOK' /\ CompilerInv' /\ Grows(code, code')
<1>1. code \in Seq(Instruction) /\ Inside(code)
  BY DEF TypeOK, StoreType, CompilerInv
<1>2. CASE RunStep
  <2>1. TypeOK' /\ CanariesIntact'
    BY <1>2, NextType DEF RunStep, Next, HostStep
  <2>2. Safe(code, code') /\ UNCHANGED <<dict, text>>
    BY <1>1, <1>2, RunningCode DEF RunStep
  <2> QED
    BY <2>1, <2>2, QuietRound
<1>3. ASSUME NEW name \in Names, Emitting(name)
      PROVE  TypeOK' /\ CanariesIntact' /\ TextTypeOK' /\ CompilerInv' /\ Grows(code, code')
  BY <1>3, EmittingRound, EmittingType, QuietRound
<1>4. ASSUME NEW name \in Names, Passing(name)
      PROVE  TypeOK' /\ CanariesIntact' /\ TextTypeOK' /\ CompilerInv' /\ Grows(code, code')
  <2>1. TypeOK' /\ CanariesIntact'
    BY <1>4, PassingType
  <2>2. UNCHANGED <<code, dict, text>>
    BY <1>4, PassingRound
  <2>3. Safe(code, code')
    BY <1>1, <2>2, SafeSame
  <2> QED
    BY <2>1, <2>2, <2>3, QuietRound
<1>5. COMPILE_COMMA \in Names
  BY NamesAssumption
<1>6. CASE TextStep
  BY <1>3, <1>4, <1>5, <1>6, ColonKeeps, SemicolonKeeps, StructureKeeps
  DEF TextStep, NameStep, Emitting, Passing
<1>7. CASE UNCHANGED cvars
  <2>1. UNCHANGED vars /\ UNCHANGED <<code, dict, text>>
    BY <1>7 DEF cvars, vars, store
  <2>2. TypeOK' /\ CanariesIntact'
    BY <2>1, NextType
  <2>3. Safe(code, code')
    BY <1>1, <2>1, SafeSame
  <2> QED
    BY <2>1, <2>2, <2>3, QuietRound
<1> QED
  BY <1>2, <1>6, <1>7 DEF CNext

LEMMA CompilerInit ==
  ASSUME CInit
  PROVE  TypeOK /\ CanariesIntact /\ TextTypeOK /\ CompilerInv
<1>1. TypeOK /\ CanariesIntact
  BY InitType DEF CInit
<1>2. PICK p \in Programs : code = p.code /\ dict = p.dict
  BY DEF CInit, Init
<1>3. /\ code = <<>> /\ \A i \in DOMAIN dict : dict[i].kind = "prim"
      /\ \A n \in DOMAIN CoreNames : CoreNames[n] < Len(dict)
  BY <1>2, NamesAssumption
<1>4. Len(code) = 0 /\ Len(dict) \in Nat /\ DOMAIN dict = 1 .. Len(dict)
  BY <1>1, <1>3, LenProperties DEF TypeOK, StoreType
<1>5. TextTypeOK
  <2>1. /\ compiling = FALSE /\ control_stack = <<>> /\ words = CoreNames
        /\ hidden = {} /\ latest_word = Len(dict) - 1
    BY DEF CInit
  <2>2. /\ words \in [DOMAIN words -> Nat] /\ DOMAIN words \subseteq Names
        /\ \A n \in DOMAIN words : words[n] < Len(dict)
    BY <1>3, <2>1, NamesAssumption
  <2>3. latest_word \in -1 .. (Len(dict) - 1) /\ control_stack \in Seq(Nat)
    BY <1>4, <2>1
  <2> QED
    BY <2>1, <2>2, <2>3 DEF TextTypeOK
<1>6. \A i \in 0 .. (Len(dict) - 1) : dict[i + 1].kind = "prim"
  BY <1>3, <1>4
<1>7. CompilerInv
  BY <1>4, <1>6 DEF CInit, CompilerInv, Balanced, NothingLeftOpen, Inside,
    WordsBegin, VisibleWordsEnd
<1> QED
  BY <1>1, <1>5, <1>7

LEMMA CompilerInvariant ==
  CSpec => [](TypeOK /\ CanariesIntact /\ TextTypeOK /\ CompilerInv)
<1>1. CInit => TypeOK /\ CanariesIntact /\ TextTypeOK /\ CompilerInv
  BY CompilerInit
<1>2. TypeOK /\ CanariesIntact /\ TextTypeOK /\ CompilerInv /\ [CNext]_cvars
        => TypeOK' /\ CanariesIntact' /\ TextTypeOK' /\ CompilerInv'
  BY CompilerNext
<1> QED
  BY <1>1, <1>2, PTL DEF CSpec

\* Patches and compiled code keep the instruction before a return address.
LEMMA CompilerFrames ==
  ASSUME TypeOK, CanariesIntact, TextTypeOK, CompilerInv, FramesFollowCalls,
         CallInProgress, [CNext]_cvars
  PROVE  FramesFollowCalls' /\ CallInProgress'
<1>1. CASE RunStep \/ UNCHANGED cvars \/ \E name \in Names : InterpretName(name)
  <2>1. [Next]_vars
    BY <1>1, KnownNames DEF RunStep, cvars, Next, HostStep, InterpretWord, InterpretName
  <2> QED
    BY <2>1, NextFrames
<1>2. CASE TextStep /\ ~\E name \in Names : InterpretName(name)
  <2>1. at = "idle" /\ UNCHANGED <<at, c_stack>>
    BY <1>2 DEF TextStep, NameStep, StructureStep, Semicolon, SemicolonUnbalanced,
      If, Then, Else, Begin, Until, While, Repeat, CompileDo, CompileLoop,
      CompilePLoop, Unstructured, NotCompiling, Compiled, Compiling, Colon,
      Postpone, PostponeUnknown, BracketTick, Tick, TickUnknown, CompileName,
      UnknownName, Literal, CompileNumber, InterpretLiteral, InterpretNumber,
      CompileFloat, InterpretFloat, Idle, Answer, frames
  <2>2. Grows(code, code') /\ Len(code) \in Nat
    BY CompilerNext, LenProperties DEF TypeOK, StoreType
  <2>3. \A a \in 1 .. Len(code) : a \in 1 .. Len(code') /\ code'[a].op = code[a].op
    <3>1. Len(code') \in Nat /\ Len(code) <= Len(code')
      BY CompilerNext, LenProperties DEF TypeOK, StoreType, Grows
    <3> SUFFICES ASSUME NEW a \in 1 .. Len(code)
                 PROVE  a \in 1 .. Len(code') /\ code'[a].op = code[a].op
      OBVIOUS
    <3>2. a - 1 \in 0 .. (Len(code) - 1) /\ (a - 1) + 1 = a
      BY <2>2
    <3>3. code'[(a - 1) + 1].op = code[(a - 1) + 1].op
      BY <2>2, <3>2 DEF Grows
    <3> QED
      BY <2>2, <3>1, <3>2, <3>3
  <2> QED
    BY <2>1, <2>3 DEF FramesFollowCalls, CallInProgress
<1> QED
  BY <1>1, <1>2 DEF CNext

-----------------------------------------------------------------------------
(***************************************************************************)
(* Theorems.                                                               *)
(***************************************************************************)
\* Whatever text interpret_loop is given and whatever run_loop runs in
\* between, the compiler's state is well typed and every name leads to an
\* entry of the dictionary.
THEOREM TextTypeCorrect == CSpec => []TextTypeOK
  BY CompilerInvariant, PTL

\* No address is left on the control stack once `;` has ended a definition,
\* although errors leave the compiler in the middle of one.
THEOREM StructuresClosed == CSpec => []NothingLeftOpen
<1>1. CompilerInv => NothingLeftOpen
  BY DEF CompilerInv
<1> QED
  BY <1>1, CompilerInvariant, PTL

\* No branch that IF, ELSE, THEN, BEGIN, UNTIL, WHILE, REPEAT, LOOP and
\* +LOOP compile, in any order and number, leaves its definition.
THEOREM BranchesHold == CSpec => []BranchesStayInside
<1>1. CompilerInv => BranchesStayInside
  <2> SUFFICES ASSUME CompilerInv
               PROVE  BranchesStayInside
    OBVIOUS
  <2>1. Inside(code)
    BY DEF CompilerInv
  <2> QED
    BY <2>1 DEF Inside, InsideAt, BranchesStayInside, HasOp, BranchTarget
<1> QED
  BY <1>1, CompilerInvariant, PTL

\* A word that is not hidden comes to a Ret.
THEOREM VisibleWordsHold == CSpec => []VisibleWordsEnd
<1>1. CompilerInv => VisibleWordsEnd
  BY DEF CompilerInv
<1> QED
  BY <1>1, CompilerInvariant, PTL

\* Neither patches of the compiler nor running code ever change a definition
\* that `;` has ended.
THEOREM FinishedHolds == CSpec => FinishedCodeStays
<1>1. TypeOK /\ CanariesIntact /\ TextTypeOK /\ CompilerInv /\ [CNext]_cvars
        => [StaysFinished]_cvars
  BY CompilerNext, GrowsFinished
<1>2. CSpec => [][StaysFinished]_cvars
  BY <1>1, CompilerInvariant, PTL DEF CSpec
<1> QED
  BY <1>2 DEF FinishedCodeStays, StaysFinished

\* Frames that failed runs left behind still follow a Call when the compiler
\* has patched and extended the code they point into.
THEOREM CompiledFramesHold == CSpec => []FramesFollowCalls
<1>1. CInit => FramesFollowCalls /\ CallInProgress
  BY DEF CInit, Init, FramesFollowCalls, CallInProgress
<1>2. TypeOK /\ CanariesIntact /\ TextTypeOK /\ CompilerInv /\ FramesFollowCalls
        /\ CallInProgress /\ [CNext]_cvars => FramesFollowCalls' /\ CallInProgress'
  BY CompilerFrames
<1> QED
  BY <1>1, <1>2, CompilerInvariant, PTL DEF CSpec

=============================================================================
