--------------------------- MODULE JitLayoutProofs ---------------------------
(***************************************************************************)
(* Theorems about JitLayout.                                               *)
(***************************************************************************)
EXTENDS JitLayout, SequenceTheorems, TLAPS

(***************************************************************************)
(* Arithmetic.                                                             *)
(***************************************************************************)
LEMMA RoundUpAligned ==
  ASSUME NEW n \in Nat
  PROVE  /\ RoundUp(n) \in Nat
         /\ RoundUp(n) >= n
         /\ RoundUp(n) % 16 = 0
<1> DEFINE r == n % 16
           q == n \div 16
<1>1. r \in 0 .. 15 /\ q \in Nat /\ n = 16 * q + r
  OBVIOUS
<1>2. CASE r = 0
  <2>1. RoundUp(n) = n
    BY <1>2 DEF RoundUp
  <2> QED
    BY <1>2, <2>1
<1>3. CASE r # 0
  <2>1. (16 - r) % 16 = 16 - r
    BY <1>1, <1>3
  <2>2. RoundUp(n) = 16 * (q + 1)
    BY <1>1, <2>1 DEF RoundUp
  <2> QED
    BY <1>1, <2>2
<1> QED
  BY <1>2, <1>3

(***************************************************************************)
(* The templates: their checks come one after the other, and before the    *)
(* branch, within the size of the template.                                *)
(***************************************************************************)
CheckType == [end : Nat, id : Nat]

\* The checks of a template of some size, and its branch if it has one.
WellPlaced(checks, size, op) ==
  /\ checks \in Seq(CheckType)
  /\ size \in Nat
  /\ \A k \in 1 .. Len(checks) : checks[k].end \in 4 .. size
  /\ \A j, k \in 1 .. Len(checks) : j < k => checks[j].end + 4 <= checks[k].end
  /\ op \in Branches =>
       /\ BranchEnd(op) \in 4 .. size
       /\ \A k \in 1 .. Len(checks) : checks[k].end + 4 <= BranchEnd(op)

LEMMA TemplateFacts ==
  ASSUME NEW op \in JitOps
  PROVE  WellPlaced(Checks(op), BodySize(op), op)
<1>1. CASE op = "Store"
  <2> DEFINE checks == <<Check(10, 2), Check(53, 3), Check(66, 11), Check(83, 3), Check(101, 8)>>
  <2>1. Checks(op) = checks /\ BodySize(op) = 137
    BY <1>1 DEF Checks, BodySize
  <2>2. checks \in Seq(CheckType) /\ Len(checks) = 5
    BY DEF Check, CheckType
  <2>3. /\ checks[1].end = 10
        /\ checks[2].end = 53
        /\ checks[3].end = 66
        /\ checks[4].end = 83
        /\ checks[5].end = 101
    BY DEF Check
  <2> HIDE DEF checks
  <2>4. \A k \in 1 .. 5 : checks[k].end \in 4 .. 137
    BY <2>3
  <2>5. \A j, k \in 1 .. 5 : j < k => checks[j].end + 4 <= checks[k].end
    BY <2>3
  <2>6. op \notin Branches
    BY <1>1 DEF Branches
  <2> QED
    BY <2>1, <2>2, <2>4, <2>5, <2>6 DEF WellPlaced
<1>2. CASE op = "Fetch"
  <2> DEFINE checks == <<Check(10, 2), Check(36, 3), Check(49, 11), Check(66, 3)>>
  <2>1. Checks(op) = checks /\ BodySize(op) = 90
    BY <1>2 DEF Checks, BodySize
  <2>2. checks \in Seq(CheckType) /\ Len(checks) = 4
    BY DEF Check, CheckType
  <2>3. /\ checks[1].end = 10
        /\ checks[2].end = 36
        /\ checks[3].end = 49
        /\ checks[4].end = 66
    BY DEF Check
  <2> HIDE DEF checks
  <2>4. \A k \in 1 .. 4 : checks[k].end \in 4 .. 90
    BY <2>3
  <2>5. \A j, k \in 1 .. 4 : j < k => checks[j].end + 4 <= checks[k].end
    BY <2>3
  <2>6. op \notin Branches
    BY <1>2 DEF Branches
  <2> QED
    BY <2>1, <2>2, <2>4, <2>5, <2>6 DEF WellPlaced
<1>3. CASE op \in {"Do", "ToR", "FromR", "Dup", "Over"}
  <2> DEFINE second == CASE op = "Do" -> 71 [] op = "ToR" -> 23 [] OTHER -> 20
             checks == <<Check(10, 2), Check(second, 1)>>
  <2>1. /\ Checks(op) = checks /\ BodySize(op) \in Nat
        /\ second \in Nat /\ second >= 14 /\ second <= BodySize(op)
    BY <1>3 DEF Checks, BodySize
  <2> HIDE DEF second
  <2>2. checks \in Seq(CheckType) /\ Len(checks) = 2
    BY <2>1 DEF Check, CheckType
  <2>3. checks[1].end = 10 /\ checks[2].end = second
    BY DEF Check
  <2> HIDE DEF checks
  <2>4. \A k \in 1 .. 2 : checks[k].end \in 4 .. BodySize(op)
    BY <2>1, <2>3
  <2>5. \A j, k \in 1 .. 2 : j < k => checks[j].end + 4 <= checks[k].end
    BY <2>1, <2>3
  <2> QED
    BY <1>3, <2>1, <2>2, <2>4, <2>5 DEF WellPlaced, Branches
<1>4. CASE op \in {"Push", "Add", "Sub", "Mul", "Eq", "Lt", "Gt", "Drop", "Swap",
                   "Inc", "Dec", "I", "JZ", "Loop"}
  <2> DEFINE only   == IF op \in {"Loop", "I"} THEN 24 ELSE 10
             id     == IF op = "Push" THEN 1 ELSE IF op \in {"Loop", "I"} THEN 9 ELSE 2
             checks == <<Check(only, id)>>
  <2>1. /\ Checks(op) = checks /\ BodySize(op) \in Nat /\ only \in 10 .. BodySize(op)
        /\ id \in Nat
    BY <1>4 DEF Checks, BodySize
  <2>2. op \in Branches => BranchEnd(op) \in 4 .. BodySize(op) /\ only + 4 <= BranchEnd(op)
    BY <1>4 DEF Branches, BranchEnd, BodySize
  <2> HIDE DEF only, id
  <2>3. checks \in Seq(CheckType) /\ Len(checks) = 1 /\ checks[1].end = only
    BY <2>1 DEF Check, CheckType
  <2> HIDE DEF checks
  <2> QED
    BY <2>1, <2>2, <2>3 DEF WellPlaced
<1>5. CASE op = "Jump"
  <2>1. Checks(op) = <<>> /\ BodySize(op) = 5 /\ BranchEnd(op) = 5
    BY <1>5 DEF Checks, BodySize, BranchEnd
  <2> QED
    BY <2>1 DEF WellPlaced
<1> QED
  BY <1>1, <1>2, <1>3, <1>4, <1>5 DEF JitOps, Branches

LEMMA FixupFields ==
  ASSUME NEW end \in Nat, NEW id \in Nat, NEW i \in Nat, end >= 4
  PROVE  Fixup(end, id, i) \in TrapFixup /\ Fixup(end, id, i).pos = end - 4
  BY DEF Fixup, TrapFixup

LEMMA NotedFixups ==
  ASSUME NEW op \in JitOps, NEW start \in Nat, NEW i \in Nat
  PROVE  /\ Noted(op, start, i) \in Seq(TrapFixup)
         /\ Len(Noted(op, start, i)) = Len(Checks(op))
         /\ \A k \in 1 .. Len(Checks(op)) :
              Noted(op, start, i)[k].pos = start + Checks(op)[k].end - 4
<1> DEFINE n == Len(Checks(op))
<1>1. /\ Checks(op) \in Seq(CheckType)
      /\ \A k \in 1 .. n : Checks(op)[k].end >= 4
  BY TemplateFacts DEF WellPlaced
<1>2. \A k \in 1 .. n : Checks(op)[k].end \in Nat /\ Checks(op)[k].id \in Nat
  <2> TAKE k \in 1 .. n
  <2>1. Checks(op)[k] \in CheckType
    BY <1>1
  <2> QED
    BY <2>1 DEF CheckType
<1>3. \A k \in 1 .. n :
        /\ Noted(op, start, i)[k] \in TrapFixup
        /\ Noted(op, start, i)[k].pos = start + Checks(op)[k].end - 4
  <2> TAKE k \in 1 .. n
  <2>1. /\ Checks(op)[k].end \in Nat /\ Checks(op)[k].id \in Nat
        /\ Checks(op)[k].end >= 4
    BY <1>1, <1>2
  <2> DEFINE stop == Checks(op)[k].end
             trap == Checks(op)[k].id
             e    == start + stop
  <2>2. Noted(op, start, i)[k] = Fixup(e, trap, i)
    BY DEF Noted
  <2>3. e \in Nat /\ e >= 4 /\ trap \in Nat /\ e - 4 = start + Checks(op)[k].end - 4
    BY <2>1
  <2> HIDE DEF stop, trap, e
  <2>4. Fixup(e, trap, i) \in TrapFixup /\ Fixup(e, trap, i).pos = e - 4
    BY <2>3, FixupFields
  <2> QED
    BY <2>2, <2>3, <2>4
<1>5. n \in Nat /\ Noted(op, start, i) = [k \in 1 .. n |-> Noted(op, start, i)[k]]
  BY <1>1 DEF Noted
<1> HIDE DEF n
<1>6. Noted(op, start, i) \in Seq(TrapFixup) /\ Len(Noted(op, start, i)) = n
  BY <1>3, <1>5
<1> QED
  BY <1>3, <1>6 DEF n

(***************************************************************************)
(* The inductive invariant.                                                *)
(***************************************************************************)
Emitted == at \in {"ops", "pads", "jumps", "traps", "compiled"}

\* The checks that every block begins with are noted first, and nothing else
\* is noted for their operands.
ChecksFirst ==
  Emitted =>
    /\ len >= 87
    /\ Len(trap_fixups) >= 3
    /\ trap_fixups[2].pos = SizeOperand
    /\ trap_fixups[3].pos = SizeEnd - 4 /\ trap_fixups[3].id = 10
    /\ \A k \in 4 .. Len(trap_fixups) : trap_fixups[k].pos >= 87
    /\ \A k \in 1 .. Len(jump_fixups) : jump_fixups[k].pos >= 87

\* Every pad but the first starts at a multiple of 16.
PadsAligned ==
  /\ \A k \in 2 .. Len(trap_targets) : trap_targets[k] % 16 = 0
  /\ at = "pads" =>
       /\ Len(trap_targets) = idx /\ idx <= Len(trap_fixups)
       /\ idx > 0 => len % 16 = 0
  /\ at \in {"jumps", "traps", "compiled"} => Len(trap_targets) = Len(trap_fixups)
  /\ at \in {"checks", "ops"} => trap_targets = <<>>

\* The fixups of the version and of the size check, once applied, stay.
OperandsWritten ==
  /\ (at = "traps" /\ idx >= 2) \/ at = "compiled" =>
       SizeOperand \in DOMAIN word
         /\ word[SizeOperand] = trap_targets[2] - (SizeOperand + 4)
  /\ (at = "traps" /\ idx >= 3) \/ at = "compiled" =>
       SizeEnd - 4 \in DOMAIN word /\ word[SizeEnd - 4] = trap_targets[3] - SizeEnd

\* Every instruction that was emitted, and then the end, has a start.
StartsNoted ==
  /\ at = "checks" => idx = 0 /\ jump_targets = <<>> /\ jump_fixups = <<>>
  /\ at = "ops" => Len(jump_targets) = idx /\ idx <= Len(ops)
  /\ at \in {"pads", "jumps", "traps", "compiled"} => Len(jump_targets) = Len(ops) + 1

LayoutInv == TypeOK /\ ChecksFirst /\ PadsAligned /\ StartsNoted /\ OperandsWritten

LEMMA WriteProperties ==
  ASSUME TypeOK, NEW pos \in Nat, NEW value \in Int, Write(pos, value)
  PROVE  /\ word' \in [DOMAIN word' -> Int]
         /\ DOMAIN word' = DOMAIN word \cup {pos}
         /\ word'[pos] = value
         /\ \A p \in DOMAIN word : p # pos => word'[p] = word[p]
<1>1. word' = [p \in DOMAIN word \cup {pos} |-> IF p = pos THEN value ELSE word[p]]
  BY DEF Write
<1>2. DOMAIN word' = DOMAIN word \cup {pos}
  BY <1>1
<1>3. \A p \in DOMAIN word : word[p] \in Int
  BY DEF TypeOK
<1>4. \A p \in DOMAIN word' : word'[p] \in Int
  BY <1>1, <1>2, <1>3
<1> QED
  BY <1>1, <1>2, <1>4

LEMMA LayoutInit == Init => LayoutInv
<1> SUFFICES ASSUME Init PROVE LayoutInv
  OBVIOUS
<1>1. TypeOK
  BY BlocksAssumption DEF Init, TypeOK
<1>2. ChecksFirst /\ PadsAligned /\ StartsNoted /\ OperandsWritten
  BY DEF Init, ChecksFirst, PadsAligned, StartsNoted, OperandsWritten, Emitted
<1> QED
  BY <1>1, <1>2 DEF LayoutInv

LEMMA EmitChecksInv == LayoutInv /\ EmitChecks => LayoutInv'
<1> SUFFICES ASSUME LayoutInv, EmitChecks PROVE LayoutInv'
  OBVIOUS
<1> USE DEF LayoutInv
<1> DEFINE first == <<Fixup(MagicEnd, 10, 0), VersionFixup, Fixup(SizeEnd, 10, 0)>>
<1>1. /\ first \in Seq(TrapFixup) /\ Len(first) = 3
      /\ first[2].pos = SizeOperand
      /\ first[3].pos = SizeEnd - 4 /\ first[3].id = 10
  BY DEF Fixup, VersionFixup, TrapFixup, MagicEnd, VersionEnd, SizeEnd, SizeOperand,
         PROLOGUE, MAGIC_CHECK, VERSION_CHECK, SIZE_CHECK
<1>2. trap_fixups' = first /\ at' = "ops" /\ len' = 87
  BY DEF EmitChecks, MagicEnd, VersionEnd, SizeEnd, PROLOGUE, MAGIC_CHECK,
         VERSION_CHECK, SIZE_CHECK, LOAD_STATE
<1>3. word' \in [DOMAIN word' -> Int]
  <2>1. SizeOperand \in Nat /\ STRUCT_SIZE \in Int
    BY DEF SizeOperand, SizeEnd, VersionEnd, MagicEnd, PROLOGUE, MAGIC_CHECK,
           VERSION_CHECK, SIZE_CHECK, STRUCT_SIZE
  <2> QED
    BY <2>1, WriteProperties DEF EmitChecks
<1>4. TypeOK'
  BY <1>1, <1>2, <1>3 DEF EmitChecks, TypeOK
<1>5. trap_targets = <<>> /\ trap_targets' = <<>> /\ jump_fixups' = jump_fixups
  BY DEF EmitChecks, PadsAligned
<1>6. PadsAligned'
  BY <1>2, <1>5 DEF PadsAligned
<1>7. OperandsWritten'
  BY <1>2 DEF OperandsWritten
<1>8. StartsNoted'
  BY <1>2 DEF EmitChecks, StartsNoted, TypeOK
<1>9. ChecksFirst'
  <2>1. jump_fixups = <<>>
    BY DEF EmitChecks, StartsNoted
  <2> QED
    BY <1>1, <1>2, <1>5, <2>1 DEF ChecksFirst
<1> QED
  BY <1>4, <1>6, <1>7, <1>8, <1>9

LEMMA EmitOpInv == LayoutInv /\ EmitOp => LayoutInv'
<1> SUFFICES ASSUME LayoutInv, EmitOp PROVE LayoutInv'
  OBVIOUS
<1> USE DEF LayoutInv
<1> DEFINE op    == ops[idx + 1].op
           start == len + PATH_TRACING
           noted == Noted(op, start, idx)
           jump  == [pos |-> start + BranchEnd(op) - 4, target |-> BranchTarget(idx)]
<1>1. /\ op \in JitOps /\ at = "ops" /\ at' = "ops" /\ idx \in 0 .. (Len(ops) - 1)
      /\ ops \in Seq(Instruction) /\ len \in Nat /\ len >= 87 /\ start \in Nat
      /\ trap_fixups \in Seq(TrapFixup) /\ jump_fixups \in Seq(JumpFixup)
  <2>1. idx \in Nat /\ idx < Len(ops) /\ ops \in Seq(Instruction)
    BY DEF EmitOp, TypeOK
  <2>2. op \in JitOps /\ at = "ops" /\ at' = "ops"
    BY DEF EmitOp
  <2>3. len \in Nat /\ len >= 87
    BY <2>2 DEF TypeOK, ChecksFirst, Emitted
  <2> QED
    BY <2>1, <2>2, <2>3 DEF TypeOK, PATH_TRACING
<1>2. /\ Checks(op) \in Seq(CheckType) /\ BodySize(op) \in Nat
      /\ \A k \in 1 .. Len(Checks(op)) : Checks(op)[k].end \in 4 .. BodySize(op)
      /\ op \in Branches => BranchEnd(op) \in 4 .. BodySize(op)
  BY <1>1, TemplateFacts DEF WellPlaced
<1>3. /\ noted \in Seq(TrapFixup)
      /\ Len(noted) = Len(Checks(op))
      /\ \A k \in 1 .. Len(noted) : noted[k].pos >= 87
  <2>1. idx \in Nat
    BY DEF TypeOK
  <2>2. /\ noted \in Seq(TrapFixup)
        /\ Len(noted) = Len(Checks(op))
        /\ \A k \in 1 .. Len(Checks(op)) : noted[k].pos = start + Checks(op)[k].end - 4
    BY <1>1, <2>1, NotedFixups
  <2>3. \A k \in 1 .. Len(Checks(op)) : noted[k].pos >= 87
    <3> TAKE k \in 1 .. Len(Checks(op))
    <3>1. Checks(op)[k].end \in Nat /\ Checks(op)[k].end >= 4
      BY <1>2
    <3> QED
      BY <1>1, <2>2, <3>1 DEF PATH_TRACING
  <2> QED
    BY <2>2, <2>3
<1>4. /\ trap_fixups' = trap_fixups \o noted
      /\ trap_fixups' \in Seq(TrapFixup)
      /\ Len(trap_fixups') = Len(trap_fixups) + Len(noted)
      /\ \A k \in 1 .. Len(trap_fixups') :
           trap_fixups'[k] = IF k <= Len(trap_fixups) THEN trap_fixups[k]
                             ELSE noted[k - Len(trap_fixups)]
  <2>1. trap_fixups' = trap_fixups \o noted
    BY DEF EmitOp
  <2> HIDE DEF noted
  <2>2. trap_fixups \in Seq(TrapFixup) /\ noted \in Seq(TrapFixup)
    BY <1>1, <1>3
  <2>3. /\ trap_fixups \o noted \in Seq(TrapFixup)
        /\ Len(trap_fixups \o noted) = Len(trap_fixups) + Len(noted)
        /\ \A k \in 1 .. Len(trap_fixups) + Len(noted) :
             (trap_fixups \o noted)[k] = IF k <= Len(trap_fixups) THEN trap_fixups[k]
                                         ELSE noted[k - Len(trap_fixups)]
    BY <2>2, ConcatProperties
  <2> QED
    BY <2>1, <2>3
<1>5. op \in Branches => jump \in JumpFixup /\ jump.pos >= 87
  <2>1. ops[idx + 1] \in Instruction
    BY <1>1
  <2>2. ops[idx + 1].data \in Int
    BY <2>1 DEF Instruction
  <2>3. BranchTarget(idx) \in Int
    BY <1>1, <2>2 DEF BranchTarget
  <2> QED
    BY <1>1, <1>2, <2>3 DEF JumpFixup, PATH_TRACING
<1>6. /\ jump_fixups' \in Seq(JumpFixup)
      /\ \A k \in 1 .. Len(jump_fixups') : jump_fixups'[k].pos >= 87
  <2>1. \A k \in 1 .. Len(jump_fixups) : jump_fixups[k].pos >= 87
    BY <1>1 DEF ChecksFirst, Emitted
  <2>2. CASE op \in Branches
    <3>1. jump_fixups' = Append(jump_fixups, jump)
      BY <2>2 DEF EmitOp
    <3> HIDE DEF jump
    <3> QED
      BY <1>1, <1>5, <2>1, <2>2, <3>1
  <2>3. CASE op \notin Branches
    BY <1>1, <2>1, <2>3 DEF EmitOp
  <2> QED
    BY <2>2, <2>3
<1>7. len' \in Nat /\ len' >= 87
  <2>1. len' = start + BodySize(op)
    BY DEF EmitOp
  <2> QED
    BY <1>1, <1>2, <2>1 DEF PATH_TRACING
<1>8. TypeOK'
  BY <1>1, <1>4, <1>6, <1>7 DEF EmitOp, TypeOK
<1>9. ChecksFirst'
  <2>1. /\ Len(trap_fixups) >= 3 /\ Len(trap_fixups) \in Nat /\ Len(noted) \in Nat
        /\ trap_fixups[2].pos = SizeOperand
        /\ trap_fixups[3].pos = SizeEnd - 4 /\ trap_fixups[3].id = 10
        /\ \A k \in 4 .. Len(trap_fixups) : trap_fixups[k].pos >= 87
    BY <1>1, <1>3 DEF ChecksFirst, Emitted
  <2>2. trap_fixups'[2] = trap_fixups[2] /\ trap_fixups'[3] = trap_fixups[3]
    BY <1>4, <2>1
  <2>3. \A k \in 4 .. Len(trap_fixups') : trap_fixups'[k].pos >= 87
    <3> HIDE DEF noted
    <3> QED
      BY <1>3, <1>4, <2>1
  <2> HIDE DEF noted
  <2>4. Len(trap_fixups') >= 3
    BY <1>4, <2>1
  <2> QED
    BY <1>6, <1>7, <2>1, <2>2, <2>3, <2>4 DEF ChecksFirst
<1>10. PadsAligned'
  BY <1>1 DEF EmitOp, PadsAligned
<1>11. OperandsWritten'
  BY <1>1 DEF OperandsWritten
<1>12. StartsNoted'
  <2>1. jump_targets' = Append(jump_targets, len) /\ idx' = idx + 1 /\ ops' = ops
    BY DEF EmitOp
  <2> QED
    BY <1>1, <2>1 DEF StartsNoted, TypeOK
<1> QED
  BY <1>8, <1>9, <1>10, <1>11, <1>12

LEMMA EmitPadInv == LayoutInv /\ EmitPad => LayoutInv'
<1> SUFFICES ASSUME LayoutInv, EmitPad PROVE LayoutInv'
  OBVIOUS
<1> USE DEF LayoutInv
<1>1. /\ at = "pads" /\ at' = "pads" /\ len \in Nat /\ len >= 87
      /\ idx \in Nat /\ idx < Len(trap_fixups) /\ idx' = idx + 1
      /\ trap_targets \in Seq(Nat) /\ Len(trap_targets) = idx
      /\ trap_fixups' = trap_fixups /\ trap_fixups \in Seq(TrapFixup)
  BY DEF EmitPad, TypeOK, ChecksFirst, PadsAligned, Emitted
<1>2. len' \in Nat /\ len' >= 87 /\ len' % 16 = 0
  <2>1. len + TRAP_PAD \in Nat /\ len + TRAP_PAD >= 87
    BY <1>1 DEF TRAP_PAD
  <2>2. len' = RoundUp(len + TRAP_PAD)
    BY DEF EmitPad
  <2> QED
    BY <2>1, <2>2, RoundUpAligned
<1>3. /\ trap_targets' = Append(trap_targets, len)
      /\ trap_targets' \in Seq(Nat) /\ Len(trap_targets') = idx + 1
  BY <1>1 DEF EmitPad
<1>4. \A k \in 2 .. Len(trap_targets') : trap_targets'[k] % 16 = 0
  <2> TAKE k \in 2 .. Len(trap_targets')
  <2>1. CASE k <= idx
    <3>1. trap_targets'[k] = trap_targets[k]
      BY <1>1, <1>3, <2>1
    <3>2. trap_targets[k] % 16 = 0
      BY <1>1, <2>1 DEF PadsAligned
    <3> QED
      BY <3>1, <3>2
  <2>2. CASE k = idx + 1
    <3>1. trap_targets'[k] = len
      BY <1>1, <1>3, <2>2
    <3>2. len % 16 = 0
      BY <1>1, <2>2 DEF PadsAligned
    <3> QED
      BY <3>1, <3>2
  <2> QED
    BY <1>1, <1>3, <2>1, <2>2
<1>5. TypeOK'
  BY <1>1, <1>2, <1>3 DEF EmitPad, TypeOK
<1>6. ChecksFirst'
  BY <1>1, <1>2 DEF EmitPad, ChecksFirst, Emitted
<1>7. PadsAligned'
  <2>1. idx' \in Nat /\ idx' <= Len(trap_fixups') /\ Len(trap_targets') = idx'
    BY <1>1, <1>3
  <2> QED
    BY <1>1, <1>2, <1>4, <2>1 DEF PadsAligned
<1>8. OperandsWritten'
  BY <1>1 DEF OperandsWritten
<1>9. StartsNoted'
  BY <1>1 DEF EmitPad, StartsNoted
<1> QED
  BY <1>5, <1>6, <1>7, <1>8, <1>9

LEMMA EmitEpilogueInv == LayoutInv /\ EmitEpilogue => LayoutInv'
<1> SUFFICES ASSUME LayoutInv, EmitEpilogue PROVE LayoutInv'
  OBVIOUS
<1> USE DEF LayoutInv
<1>1. /\ at = "ops" /\ at' = "pads" /\ idx = Len(ops) /\ idx' = 0
      /\ ops' = ops /\ ops \in Seq(Instruction)
      /\ len \in Nat /\ len >= 87 /\ len' = len + 39
      /\ jump_targets \in Seq(Nat) /\ Len(jump_targets) = idx
      /\ jump_targets' = Append(jump_targets, len)
      /\ trap_targets = <<>> /\ trap_targets' = <<>>
      /\ trap_fixups' = trap_fixups /\ trap_fixups \in Seq(TrapFixup)
  BY DEF EmitEpilogue, TypeOK, ChecksFirst, Emitted, PadsAligned, StartsNoted, EPILOGUE
<1>2. TypeOK'
  BY <1>1 DEF EmitEpilogue, TypeOK
<1>3. ChecksFirst'
  BY <1>1 DEF EmitEpilogue, ChecksFirst, Emitted
<1>4. PadsAligned'
  BY <1>1 DEF PadsAligned
<1>5. StartsNoted'
  BY <1>1 DEF StartsNoted
<1>6. OperandsWritten'
  BY <1>1 DEF OperandsWritten
<1> QED
  BY <1>2, <1>3, <1>4, <1>5, <1>6

LEMMA FixJumpInv == LayoutInv /\ FixJump => LayoutInv'
<1> SUFFICES ASSUME LayoutInv, FixJump PROVE LayoutInv'
  OBVIOUS
<1> USE DEF LayoutInv
<1> DEFINE fixup  == jump_fixups[idx + 1]
           target == IF fixup.target \in 0 .. Len(ops) THEN fixup.target ELSE Len(ops)
<1>1. /\ at = "jumps" /\ at' = "jumps" /\ idx \in Nat /\ idx' = idx + 1
      /\ idx < Len(jump_fixups) /\ jump_fixups \in Seq(JumpFixup)
      /\ UNCHANGED <<ops, len, lists>>
  BY DEF FixJump, TypeOK
<1>2. fixup.pos \in Nat
  <2>1. fixup \in JumpFixup
    BY <1>1
  <2> QED
    BY <2>1 DEF JumpFixup
<1>3. jump_targets[target + 1] \in Nat
  <2>1. Len(jump_targets) = Len(ops) + 1 /\ jump_targets \in Seq(Nat) /\ Len(ops) \in Nat
    BY <1>1 DEF TypeOK, StartsNoted
  <2>2. target \in 0 .. Len(ops)
    BY <2>1
  <2> HIDE DEF target
  <2> QED
    BY <2>1, <2>2
<1>4. word' \in [DOMAIN word' -> Int]
  <2>1. Write(fixup.pos, jump_targets[target + 1] - (fixup.pos + 4))
    BY DEF FixJump
  <2> HIDE DEF fixup, target
  <2>2. jump_targets[target + 1] - (fixup.pos + 4) \in Int
    BY <1>2, <1>3
  <2> QED
    BY <1>2, <2>1, <2>2, WriteProperties
<1>5. TypeOK'
  BY <1>1, <1>4 DEF TypeOK, lists
<1>6. ChecksFirst' /\ PadsAligned' /\ StartsNoted' /\ OperandsWritten'
  BY <1>1 DEF ChecksFirst, PadsAligned, StartsNoted, OperandsWritten, Emitted, lists
<1> QED
  BY <1>5, <1>6

LEMMA FixTrapInv == LayoutInv /\ FixTrap => LayoutInv'
<1> SUFFICES ASSUME LayoutInv, FixTrap PROVE LayoutInv'
  OBVIOUS
<1> USE DEF LayoutInv
<1> DEFINE fixup == trap_fixups[idx + 1]
           value == trap_targets[idx + 1] - (fixup.pos + 4)
<1>1. /\ at = "traps" /\ at' = "traps" /\ idx \in Nat /\ idx' = idx + 1
      /\ idx < Len(trap_fixups) /\ trap_fixups \in Seq(TrapFixup)
      /\ trap_targets \in Seq(Nat) /\ Len(trap_targets) = Len(trap_fixups)
      /\ UNCHANGED <<ops, len, lists>>
      /\ Write(fixup.pos, value)
  BY DEF FixTrap, TypeOK, PadsAligned
<1>2. fixup.pos \in Nat /\ value \in Int
  <2>1. fixup \in TrapFixup /\ trap_targets[idx + 1] \in Nat
    BY <1>1
  <2> QED
    BY <2>1 DEF TrapFixup
<1>3. /\ word' \in [DOMAIN word' -> Int]
      /\ DOMAIN word' = DOMAIN word \cup {fixup.pos}
      /\ word'[fixup.pos] = value
      /\ \A p \in DOMAIN word : p # fixup.pos => word'[p] = word[p]
  <2> HIDE DEF fixup, value
  <2> QED
    BY <1>1, <1>2, WriteProperties
<1>4. /\ trap_fixups[2].pos = SizeOperand
      /\ trap_fixups[3].pos = SizeEnd - 4
      /\ \A k \in 4 .. Len(trap_fixups) : trap_fixups[k].pos >= 87
  BY <1>1 DEF ChecksFirst, Emitted
<1>5. SizeOperand = 61 /\ SizeEnd = 71
  BY DEF SizeOperand, SizeEnd, VersionEnd, MagicEnd, PROLOGUE, MAGIC_CHECK,
         VERSION_CHECK, SIZE_CHECK
<1>6. TypeOK'
  BY <1>1, <1>3 DEF TypeOK, lists
<1>7. ChecksFirst' /\ PadsAligned' /\ StartsNoted'
  BY <1>1 DEF ChecksFirst, PadsAligned, StartsNoted, Emitted, lists
<1>8. OperandsWritten'
  <2>1. CASE idx = 0
    BY <1>1, <2>1 DEF OperandsWritten
  <2>2. CASE idx = 1
    <3>1. fixup.pos = 61 /\ value = trap_targets[2] - 65
      BY <1>4, <1>5, <2>2
    <3> QED
      BY <1>1, <1>3, <1>5, <2>2, <3>1 DEF OperandsWritten, lists
  <2>3. CASE idx = 2
    <3>1. fixup.pos = 67 /\ value = trap_targets[3] - 71
      BY <1>4, <1>5, <2>3
    <3>2. 61 \in DOMAIN word /\ word[61] = trap_targets[2] - 65
      BY <1>1, <1>5, <2>3 DEF OperandsWritten
    <3> QED
      BY <1>1, <1>3, <1>5, <2>3, <3>1, <3>2 DEF OperandsWritten, lists
  <2>4. CASE idx >= 3
    <3>1. fixup.pos >= 87
      BY <1>1, <1>4, <2>4
    <3>2. /\ 61 \in DOMAIN word /\ word[61] = trap_targets[2] - 65
          /\ 67 \in DOMAIN word /\ word[67] = trap_targets[3] - 71
      BY <1>1, <1>5, <2>4 DEF OperandsWritten
    <3>3. 61 # fixup.pos /\ 67 # fixup.pos
      BY <1>2, <3>1
    <3>4. trap_targets' = trap_targets
      BY <1>1 DEF lists
    <3> HIDE DEF fixup, value
    <3>5. /\ 61 \in DOMAIN word' /\ word'[61] = trap_targets'[2] - 65
          /\ 67 \in DOMAIN word' /\ word'[67] = trap_targets'[3] - 71
      BY <1>3, <3>2, <3>3, <3>4
    <3> QED
      BY <1>5, <3>5 DEF OperandsWritten
  <2> QED
    BY <1>1, <2>1, <2>2, <2>3, <2>4
<1> QED
  BY <1>6, <1>7, <1>8

LEMMA LayoutStep == LayoutInv /\ [Next]_vars => LayoutInv'
<1> SUFFICES ASSUME LayoutInv, [Next]_vars PROVE LayoutInv'
  OBVIOUS
<1> USE DEF LayoutInv
<1>1. CASE TooLong \/ JumpOutOfBounds \/ NoTemplate
  <2>1. Refuse
    BY <1>1 DEF TooLong, JumpOutOfBounds, NoTemplate
  <2> QED
    BY <2>1 DEF Refuse, lists, TypeOK, ChecksFirst, PadsAligned, StartsNoted,
                OperandsWritten, Emitted
<1>2. CASE PadsEnd
  BY <1>2 DEF PadsEnd, NextPart, lists, TypeOK, ChecksFirst, PadsAligned, StartsNoted,
              OperandsWritten, Emitted
<1>3. CASE JumpsEnd
  BY <1>3 DEF JumpsEnd, NextPart, lists, TypeOK, ChecksFirst, PadsAligned, StartsNoted,
              OperandsWritten, Emitted
<1>4. CASE Insert
  BY <1>4 DEF Insert, NextPart, lists, TypeOK, ChecksFirst, PadsAligned, StartsNoted,
              OperandsWritten, Emitted
<1>5. CASE CompileSuper
  <2>1. TypeOK'
    BY <1>5, BlocksAssumption DEF CompileSuper, TypeOK
  <2> QED
    BY <1>5, <2>1 DEF CompileSuper, ChecksFirst, PadsAligned, StartsNoted,
                      OperandsWritten, Emitted
<1>6. CASE UNCHANGED vars
  BY <1>6 DEF vars, lists, TypeOK, ChecksFirst, PadsAligned, StartsNoted,
              OperandsWritten, Emitted
<1> QED
  BY <1>1, <1>2, <1>3, <1>4, <1>5, <1>6, EmitChecksInv, EmitOpInv, EmitEpilogueInv,
     EmitPadInv, FixJumpInv, FixTrapInv DEF Next

LEMMA LayoutInvariant == Spec => []LayoutInv
  BY LayoutInit, LayoutStep, PTL DEF Spec

(***************************************************************************)
(* The fixups do not overlap.                                              *)
(***************************************************************************)
Apart(p, q) == p + 4 <= q \/ q + 4 <= p

\* Each list of fixups is in the order of their positions, four bytes apart
\* at least, and the two lists have no byte in common.
Spaced ==
  /\ \A k \in 1 .. Len(trap_fixups) : trap_fixups[k].pos + 4 <= len
  /\ \A k \in 1 .. Len(jump_fixups) : jump_fixups[k].pos + 4 <= len
  /\ \A j, k \in 1 .. Len(trap_fixups) :
       j < k => trap_fixups[j].pos + 4 <= trap_fixups[k].pos
  /\ \A j, k \in 1 .. Len(jump_fixups) :
       j < k => jump_fixups[j].pos + 4 <= jump_fixups[k].pos
  /\ \A j \in 1 .. Len(trap_fixups), k \in 1 .. Len(jump_fixups) :
       Apart(trap_fixups[j].pos, jump_fixups[k].pos)

LEMMA EmitOpSpaced == LayoutInv /\ Spaced /\ EmitOp => Spaced'
<1> SUFFICES ASSUME LayoutInv, Spaced, EmitOp PROVE Spaced'
  OBVIOUS
<1> DEFINE op    == ops[idx + 1].op
           start == len + PATH_TRACING
           noted == Noted(op, start, idx)
           jump  == [pos |-> start + BranchEnd(op) - 4, target |-> BranchTarget(idx)]
           old   == Len(trap_fixups)
           jumps == Len(jump_fixups)
           P(k)  == trap_fixups[k].pos
           Q(k)  == jump_fixups[k].pos
           C(k)  == Checks(op)[k].end
           n     == Len(Checks(op))
<1>1. /\ op \in JitOps /\ len \in Nat /\ old \in Nat /\ jumps \in Nat
      /\ trap_fixups \in Seq(TrapFixup) /\ jump_fixups \in Seq(JumpFixup)
  BY DEF EmitOp, LayoutInv, TypeOK
<1>2. /\ \A k \in 1 .. old : trap_fixups[k] \in TrapFixup
      /\ \A k \in 1 .. jumps : jump_fixups[k] \in JumpFixup
  BY <1>1
<1>3. /\ \A k \in 1 .. old : P(k) \in Nat
      /\ \A k \in 1 .. jumps : Q(k) \in Nat
  BY <1>2 DEF TrapFixup, JumpFixup
<1>4. WellPlaced(Checks(op), BodySize(op), op)
  BY <1>1, TemplateFacts
<1>5. /\ n \in Nat /\ BodySize(op) \in Nat
      /\ \A k \in 1 .. n : C(k) \in Nat /\ C(k) >= 4 /\ C(k) <= BodySize(op)
      /\ \A j, k \in 1 .. n : j < k => C(j) + 4 <= C(k)
  BY <1>4 DEF WellPlaced
<1>6. len' = start + BodySize(op) /\ start = len + 54
  BY DEF EmitOp, PATH_TRACING
<1>7. /\ noted \in Seq(TrapFixup) /\ Len(noted) = n
      /\ \A k \in 1 .. n : noted[k].pos = start + C(k) - 4
  <2>1. idx \in Nat /\ start \in Nat
    BY <1>1, <1>6 DEF LayoutInv, TypeOK, PATH_TRACING
  <2> QED
    BY <1>1, <2>1, NotedFixups
<1>8. trap_fixups' = trap_fixups \o noted
  BY DEF EmitOp
<1>9. /\ Len(trap_fixups') = old + n
      /\ \A k \in 1 .. old : trap_fixups'[k].pos = P(k)
      /\ \A k \in (old + 1) .. (old + n) : trap_fixups'[k].pos = start + C(k - old) - 4
  <2> HIDE DEF noted
  <2>1. trap_fixups \in Seq(TrapFixup) /\ noted \in Seq(TrapFixup)
    BY <1>1, <1>7
  <2>2. /\ Len(trap_fixups \o noted) = Len(trap_fixups) + Len(noted)
        /\ \A k \in 1 .. Len(trap_fixups) + Len(noted) :
             (trap_fixups \o noted)[k] = IF k <= Len(trap_fixups) THEN trap_fixups[k]
                                         ELSE noted[k - Len(trap_fixups)]
    BY <2>1, ConcatProperties
  <2>3. \A k \in (old + 1) .. (old + n) : k - old \in 1 .. n
    BY <1>1, <1>5
  <2> HIDE DEF start, op, n, C
  <2> QED
    BY <1>1, <1>5, <1>7, <1>8, <2>2, <2>3
<1>10. \/ /\ op \in Branches
          /\ Len(jump_fixups') = jumps + 1
          /\ jump_fixups'[jumps + 1].pos = start + BranchEnd(op) - 4
          /\ \A k \in 1 .. jumps : jump_fixups'[k].pos = Q(k)
          /\ BranchEnd(op) \in 4 .. BodySize(op)
          /\ \A k \in 1 .. n : C(k) + 4 <= BranchEnd(op)
       \/ /\ op \notin Branches
          /\ jump_fixups' = jump_fixups
  <2>1. CASE op \in Branches
    <3>1. jump_fixups' = Append(jump_fixups, jump)
      BY <2>1 DEF EmitOp
    <3>2. jump.pos = start + BranchEnd(op) - 4
      OBVIOUS
    <3>3. /\ BranchEnd(op) \in 4 .. BodySize(op)
          /\ \A k \in 1 .. n : C(k) + 4 <= BranchEnd(op)
      BY <1>4, <2>1 DEF WellPlaced
    <3> HIDE DEF jump
    <3> QED
      BY <1>1, <2>1, <3>1, <3>2, <3>3
  <2> QED
    BY <2>1 DEF EmitOp
<1>11. /\ \A k \in 1 .. old : P(k) + 4 <= len
       /\ \A k \in 1 .. jumps : Q(k) + 4 <= len
       /\ \A j, k \in 1 .. old : j < k => P(j) + 4 <= P(k)
       /\ \A j, k \in 1 .. jumps : j < k => Q(j) + 4 <= Q(k)
       /\ \A j \in 1 .. old, k \in 1 .. jumps : Apart(P(j), Q(k))
  BY DEF Spaced
<1> DEFINE P1(k) == trap_fixups'[k].pos
           Q1(k) == jump_fixups'[k].pos
           B     == BranchEnd(op)
           S     == BodySize(op)
<1>12. \A k \in 1 .. (old + n) :
         \/ k \in 1 .. old /\ P1(k) = P(k)
         \/ \E i \in 1 .. n : k = old + i /\ P1(k) = start + C(i) - 4
  <2> TAKE k \in 1 .. (old + n)
  <2> HIDE DEF start, op, n, C, P
  <2>1. CASE k <= old
    BY <1>1, <1>5, <1>9, <2>1 DEF P
  <2>2. CASE k > old
    <3>1. k - old \in 1 .. n /\ k \in (old + 1) .. (old + n)
      BY <1>1, <1>5, <2>2
    <3>2. PICK i \in 1 .. n : i = k - old
      BY <3>1
    <3>3. k = old + i
      BY <1>1, <1>5, <3>2
    <3>4. P1(k) = start + C(i) - 4
      BY <1>9, <3>1, <3>2
    <3> HIDE DEF P1, old
    <3>5. \E h \in 1 .. n : k = old + h /\ P1(k) = start + C(h) - 4
      BY <3>3, <3>4, Zenon
    <3> QED
      BY <3>5, Zenon
  <2>3. k <= old \/ k > old
    BY <1>1, <1>5
  <2> QED
    BY <2>1, <2>2, <2>3, Zenon
<1>13. \A k \in 1 .. Len(jump_fixups') :
         \/ k <= jumps /\ k \in 1 .. jumps /\ Q1(k) = Q(k)
         \/ /\ k = jumps + 1 /\ Q1(k) = start + B - 4
            /\ B \in 4 .. S /\ \A i \in 1 .. n : C(i) + 4 <= B
  BY <1>1, <1>10
<1>14. Len(trap_fixups') = old + n
  BY <1>9
<1> HIDE DEF op, start, noted, jump, old, jumps, P, Q, C, n, P1, Q1, B, S
<1>15. S \in Nat /\ len' = start + S
  BY <1>5, <1>6 DEF S
<1>16. \A k \in 1 .. n : C(k) \in Nat /\ C(k) >= 4 /\ C(k) <= S
  BY <1>5 DEF S
<1>17. start \in Nat /\ start >= len
  BY <1>1, <1>6
<1>18. \A k \in 1 .. (old + n) : P1(k) + 4 <= len'
  <2> TAKE k \in 1 .. (old + n)
  <2>1. CASE k \in 1 .. old /\ P1(k) = P(k)
    <3>1. P(k) \in Nat /\ P(k) + 4 <= len
      BY <1>3, <1>11, <2>1
    <3> QED
      BY <1>1, <1>15, <1>17, <2>1, <3>1
  <2>2. ASSUME NEW i \in 1 .. n, P1(k) = start + C(i) - 4
        PROVE  P1(k) + 4 <= len'
    <3>1. C(i) \in Nat /\ C(i) <= S
      BY <1>16
    <3> QED
      BY <1>15, <1>17, <2>2, <3>1
  <2> QED
    BY <1>12, <2>1, <2>2
<1>19. \A k \in 1 .. Len(jump_fixups') : Q1(k) + 4 <= len'
  <2> TAKE k \in 1 .. Len(jump_fixups')
  <2>1. CASE k \in 1 .. jumps /\ Q1(k) = Q(k)
    <3>1. Q(k) \in Nat /\ Q(k) + 4 <= len
      BY <1>3, <1>11, <2>1
    <3> QED
      BY <1>1, <1>15, <1>17, <2>1, <3>1
  <2>2. CASE Q1(k) = start + B - 4 /\ B \in 4 .. S
    BY <1>15, <1>17, <2>2
  <2> QED
    BY <1>13, <2>1, <2>2
<1>20. \A j, k \in 1 .. (old + n) : j < k => P1(j) + 4 <= P1(k)
  <2> SUFFICES ASSUME NEW j \in 1 .. (old + n), NEW k \in 1 .. (old + n), j < k
               PROVE  P1(j) + 4 <= P1(k)
    OBVIOUS
  <2>1. CASE k \in 1 .. old /\ P1(k) = P(k)
    <3>1. j \in 1 .. old /\ \A i \in 1 .. n : j # old + i
      BY <1>1, <1>5, <2>1
    <3>2. P1(j) = P(j)
      BY <1>12, <3>1
    <3> QED
      BY <1>11, <2>1, <3>1, <3>2
  <2>2. ASSUME NEW i \in 1 .. n, k = old + i, P1(k) = start + C(i) - 4
        PROVE  P1(j) + 4 <= P1(k)
    <3>1. C(i) \in Nat /\ C(i) >= 4
      BY <1>16
    <3>2. CASE j \in 1 .. old /\ P1(j) = P(j)
      <4>1. P(j) \in Nat /\ P(j) + 4 <= len
        BY <1>3, <1>11, <3>2
      <4> QED
        BY <1>1, <1>17, <2>2, <3>1, <3>2, <4>1
    <3>3. ASSUME NEW h \in 1 .. n, j = old + h, P1(j) = start + C(h) - 4
          PROVE  P1(j) + 4 <= P1(k)
      <4>1. h < i
        BY <1>1, <1>5, <2>2, <3>3
      <4>2. C(h) \in Nat /\ C(h) + 4 <= C(i)
        BY <1>5, <4>1
      <4> QED
        BY <1>17, <2>2, <3>1, <3>3, <4>2
    <3> QED
      BY <1>12, <3>2, <3>3
  <2> QED
    BY <1>12, <2>1, <2>2
<1>21. \A j, k \in 1 .. Len(jump_fixups') : j < k => Q1(j) + 4 <= Q1(k)
  <2> SUFFICES ASSUME NEW j \in 1 .. Len(jump_fixups'), NEW k \in 1 .. Len(jump_fixups'),
                      j < k
               PROVE  Q1(j) + 4 <= Q1(k)
    OBVIOUS
  <2>1. j \in 1 .. jumps /\ Q1(j) = Q(j)
    BY <1>1, <1>13
  <2>2. Q(j) \in Nat /\ Q(j) + 4 <= len
    BY <1>3, <1>11, <2>1
  <2>3. CASE k \in 1 .. jumps /\ Q1(k) = Q(k)
    BY <1>11, <2>1, <2>3
  <2>4. CASE Q1(k) = start + B - 4 /\ B \in 4 .. S
    BY <1>1, <1>15, <1>17, <2>1, <2>2, <2>4
  <2> QED
    BY <1>13, <2>3, <2>4
<1>22. \A j \in 1 .. (old + n), k \in 1 .. Len(jump_fixups') : Apart(P1(j), Q1(k))
  <2> SUFFICES ASSUME NEW j \in 1 .. (old + n), NEW k \in 1 .. Len(jump_fixups')
               PROVE  Apart(P1(j), Q1(k))
    OBVIOUS
  <2>1. CASE j \in 1 .. old /\ P1(j) = P(j)
    <3>1. P(j) \in Nat /\ P(j) + 4 <= len
      BY <1>3, <1>11, <2>1
    <3>2. CASE k \in 1 .. jumps /\ Q1(k) = Q(k)
      BY <1>11, <2>1, <3>2
    <3>3. CASE Q1(k) = start + B - 4 /\ B \in 4 .. S
      BY <1>1, <1>15, <1>17, <2>1, <3>1, <3>3 DEF Apart
    <3> QED
      BY <1>13, <3>2, <3>3
  <2>2. ASSUME NEW i \in 1 .. n, P1(j) = start + C(i) - 4
        PROVE  Apart(P1(j), Q1(k))
    <3>1. C(i) \in Nat /\ C(i) >= 4
      BY <1>16
    <3>2. CASE k \in 1 .. jumps /\ Q1(k) = Q(k)
      <4>1. Q(k) \in Nat /\ Q(k) + 4 <= len
        BY <1>3, <1>11, <3>2
      <4> QED
        BY <1>1, <1>17, <2>2, <3>1, <3>2, <4>1 DEF Apart
    <3>3. CASE Q1(k) = start + B - 4 /\ B \in 4 .. S /\ C(i) + 4 <= B
      BY <1>15, <1>17, <2>2, <3>1, <3>3 DEF Apart
    <3> QED
      BY <1>13, <3>2, <3>3
  <2> QED
    BY <1>12, <2>1, <2>2
<1> QED
  BY <1>14, <1>18, <1>19, <1>20, <1>21, <1>22 DEF Spaced, P1, Q1

LEMMA SpacedInit == Init => Spaced
  BY DEF Init, Spaced

LEMMA EmitChecksSpaced == LayoutInv /\ EmitChecks => Spaced'
<1> SUFFICES ASSUME LayoutInv, EmitChecks PROVE Spaced'
  OBVIOUS
<1> DEFINE first == <<Fixup(MagicEnd, 10, 0), VersionFixup, Fixup(SizeEnd, 10, 0)>>
<1>1. first[1].pos = 42 /\ first[2].pos = 61 /\ first[3].pos = 67 /\ Len(first) = 3
  BY DEF Fixup, VersionFixup, MagicEnd, VersionEnd, SizeEnd,
         PROLOGUE, MAGIC_CHECK, VERSION_CHECK, SIZE_CHECK
<1>2. trap_fixups' = first /\ len' = 87
  BY DEF EmitChecks, MagicEnd, VersionEnd, SizeEnd, PROLOGUE, MAGIC_CHECK,
         VERSION_CHECK, SIZE_CHECK, LOAD_STATE
<1>3. Len(jump_fixups') = 0
  BY DEF LayoutInv, StartsNoted, EmitChecks
<1> HIDE DEF first
<1>4. \A k \in 1 .. 3 : first[k].pos + 4 <= 87
  BY <1>1
<1>5. \A j, k \in 1 .. 3 : j < k => first[j].pos + 4 <= first[k].pos
  BY <1>1
<1>6. 1 .. Len(trap_fixups') = 1 .. 3
  BY <1>1, <1>2
<1>7. 1 .. Len(jump_fixups') = {}
  BY <1>3
<1>8. /\ \A k \in 1 .. Len(trap_fixups') : trap_fixups'[k].pos + 4 <= len'
      /\ \A j, k \in 1 .. Len(trap_fixups') :
           j < k => trap_fixups'[j].pos + 4 <= trap_fixups'[k].pos
  BY <1>2, <1>4, <1>5, <1>6
<1> QED
  BY <1>7, <1>8, Zenon DEF Spaced

\* The code only grows.
LEMMA GrowSpaced ==
  ASSUME LayoutInv, Spaced, len' \in Nat, len' >= len,
         trap_fixups' = trap_fixups, jump_fixups' = jump_fixups
  PROVE  Spaced'
<1>1. /\ \A k \in 1 .. Len(trap_fixups) : trap_fixups[k].pos \in Nat
      /\ \A k \in 1 .. Len(jump_fixups) : jump_fixups[k].pos \in Nat
  <2>1. trap_fixups \in Seq(TrapFixup) /\ jump_fixups \in Seq(JumpFixup)
    BY DEF LayoutInv, TypeOK
  <2>2. /\ \A k \in 1 .. Len(trap_fixups) : trap_fixups[k] \in TrapFixup
        /\ \A k \in 1 .. Len(jump_fixups) : jump_fixups[k] \in JumpFixup
    BY <2>1
  <2> QED
    BY <2>2 DEF TrapFixup, JumpFixup
<1>2. len \in Nat
  BY DEF LayoutInv, TypeOK
<1>3. /\ \A k \in 1 .. Len(trap_fixups) : trap_fixups[k].pos + 4 <= len'
      /\ \A k \in 1 .. Len(jump_fixups) : jump_fixups[k].pos + 4 <= len'
  <2>1. /\ \A k \in 1 .. Len(trap_fixups) : trap_fixups[k].pos + 4 <= len
        /\ \A k \in 1 .. Len(jump_fixups) : jump_fixups[k].pos + 4 <= len
    BY DEF Spaced
  <2> QED
    BY <1>1, <1>2, <2>1
<1> QED
  BY <1>3 DEF Spaced

LEMMA SpacedStep == LayoutInv /\ Spaced /\ [Next]_vars => Spaced'
<1> SUFFICES ASSUME LayoutInv, Spaced, [Next]_vars PROVE Spaced'
  OBVIOUS
<1>1. len \in Nat
  BY DEF LayoutInv, TypeOK
<1>2. CASE EmitEpilogue
  <2>1. len' \in Nat /\ len' >= len
    BY <1>1, <1>2 DEF EmitEpilogue, EPILOGUE
  <2>2. trap_fixups' = trap_fixups /\ jump_fixups' = jump_fixups
    BY <1>2 DEF EmitEpilogue
  <2> QED
    BY <2>1, <2>2, GrowSpaced
<1>3. CASE EmitPad
  <2>1. len + TRAP_PAD \in Nat /\ len + TRAP_PAD >= len
    BY <1>1 DEF TRAP_PAD
  <2>2. RoundUp(len + TRAP_PAD) \in Nat /\ RoundUp(len + TRAP_PAD) >= len + TRAP_PAD
    BY <2>1, RoundUpAligned
  <2>3. len' = RoundUp(len + TRAP_PAD)
    BY <1>3 DEF EmitPad
  <2>4. len' \in Nat /\ len' >= len
    BY <1>1, <2>1, <2>2, <2>3
  <2>5. trap_fixups' = trap_fixups /\ jump_fixups' = jump_fixups
    BY <1>3 DEF EmitPad
  <2> QED
    BY <2>4, <2>5, GrowSpaced
<1>4. CASE TooLong \/ JumpOutOfBounds \/ NoTemplate \/ PadsEnd \/ JumpsEnd \/ Insert
           \/ FixJump \/ FixTrap \/ UNCHANGED vars
  <2>1. UNCHANGED <<len, lists>>
    BY <1>4 DEF TooLong, JumpOutOfBounds, NoTemplate, Refuse, PadsEnd, JumpsEnd,
                Insert, NextPart, FixJump, FixTrap, vars
  <2> QED
    BY <1>1, <2>1, GrowSpaced DEF lists
<1>5. CASE CompileSuper
  BY <1>5 DEF CompileSuper, Spaced
<1> QED
  BY <1>2, <1>3, <1>4, <1>5, EmitChecksSpaced, EmitOpSpaced DEF Next

(***************************************************************************)
(* Theorems.                                                               *)
(***************************************************************************)
\* compile_super's lists, positions and operands have their types.
THEOREM TypeCorrect == Spec => []TypeOK
<1>1. LayoutInv => TypeOK
  BY DEF LayoutInv
<1> QED
  BY <1>1, LayoutInvariant, PTL

\* The size check of runtime.rs:132 turns every context away, whatever the
\* block: the number it compares with is the distance from byte 65 to a pad
\* that starts at a multiple of 16, and 264 + 65 is not a multiple of 16.
THEOREM BlocksRefuse == Spec => []EveryBlockRefuses
<1>1. LayoutInv => EveryBlockRefuses
  <2> SUFFICES ASSUME LayoutInv, at = "compiled" PROVE EveryBlockRefuses
    BY DEF EveryBlockRefuses, Compiled
  <2>1. SizeOperand = 61 /\ SizeEnd = 71
    BY DEF SizeOperand, SizeEnd, VersionEnd, MagicEnd, PROLOGUE, MAGIC_CHECK,
           VERSION_CHECK, SIZE_CHECK
  <2>2. /\ word[61] = trap_targets[2] - 65
        /\ word[67] = trap_targets[3] - 71
    BY <2>1 DEF LayoutInv, OperandsWritten
  <2>3. /\ trap_targets[2] \in Nat /\ trap_targets[2] % 16 = 0
        /\ trap_targets[3] \in Nat /\ trap_fixups[3].id = 10
    <3>1. /\ Len(trap_fixups) >= 3 /\ trap_fixups[3].id = 10
          /\ Len(trap_targets) = Len(trap_fixups)
      BY DEF LayoutInv, ChecksFirst, PadsAligned, Emitted
    <3>2. trap_targets \in Seq(Nat) /\ Len(trap_targets) >= 3
      BY <3>1 DEF LayoutInv, TypeOK
    <3>3. trap_targets[2] % 16 = 0
      BY <3>2 DEF LayoutInv, PadsAligned
    <3> QED
      BY <3>1, <3>2, <3>3
  <2>4. trap_targets[2] # 329
    BY <2>3
  <2>5. word[61] # 264
    BY <2>2, <2>3, <2>4
  <2>6. Destination(67) = trap_targets[3]
    BY <2>2, <2>3 DEF Destination
  <2> QED
    BY <2>1, <2>3, <2>5, <2>6 DEF EveryBlockRefuses, Compiled, STRUCT_SIZE
<1> QED
  BY <1>1, LayoutInvariant, PTL

\* A fixup of compile_super writes over no other fixup's bytes, and not outside
\* the code, in a block of any length.
THEOREM FixupsAreDisjoint == Spec => []FixupsDisjoint
<1>1. LayoutInv /\ Spaced => FixupsDisjoint
  <2> SUFFICES ASSUME LayoutInv, Spaced PROVE FixupsDisjoint
    OBVIOUS
  <2> DEFINE traps == Len(trap_fixups)
             jumps == Len(jump_fixups)
             P(k)  == trap_fixups[k].pos
             Q(k)  == jump_fixups[k].pos
  <2>1. /\ traps \in Nat /\ jumps \in Nat
        /\ \A k \in 1 .. traps : P(k) \in Nat /\ P(k) + 4 <= len
        /\ \A k \in 1 .. jumps : Q(k) \in Nat /\ Q(k) + 4 <= len
    <3>1. trap_fixups \in Seq(TrapFixup) /\ jump_fixups \in Seq(JumpFixup)
      BY DEF LayoutInv, TypeOK
    <3>2. /\ \A k \in 1 .. Len(trap_fixups) : trap_fixups[k] \in TrapFixup
          /\ \A k \in 1 .. Len(jump_fixups) : jump_fixups[k] \in JumpFixup
      BY <3>1
    <3> QED
      BY <3>1, <3>2 DEF TrapFixup, JumpFixup, Spaced
  <2>2. /\ \A j, k \in 1 .. traps : j < k => P(j) + 4 <= P(k)
        /\ \A j, k \in 1 .. jumps : j < k => Q(j) + 4 <= Q(k)
        /\ \A j \in 1 .. traps, k \in 1 .. jumps : Apart(P(j), Q(k))
    BY DEF Spaced
  <2>3. \A p \in FixupPositions :
          (\E k \in 1 .. traps : p = P(k)) \/ (\E k \in 1 .. jumps : p = Q(k))
    BY DEF FixupPositions
  <2> HIDE DEF traps, jumps, P, Q
  <2>4. \A j, k \in 1 .. traps : P(j) = P(k) => j = k
    BY <2>1, <2>2
  <2>5. \A j, k \in 1 .. traps : P(j) # P(k) => Apart(P(j), P(k))
    BY <2>1, <2>2 DEF Apart
  <2>6. \A j, k \in 1 .. jumps : Q(j) # Q(k) => Apart(Q(j), Q(k))
    BY <2>1, <2>2 DEF Apart
  <2>7. \A p, q \in FixupPositions : p # q => Apart(p, q)
    <3> SUFFICES ASSUME NEW p \in FixupPositions, NEW q \in FixupPositions, p # q
                 PROVE  Apart(p, q)
      OBVIOUS
    <3>1. CASE \E j \in 1 .. traps : p = P(j)
      <4>1. PICK j \in 1 .. traps : p = P(j)
        BY <3>1
      <4>2. CASE \E k \in 1 .. traps : q = P(k)
        BY <2>5, <4>1, <4>2
      <4>3. CASE \E k \in 1 .. jumps : q = Q(k)
        BY <2>2, <4>1, <4>3
      <4> QED
        BY <2>3, <4>2, <4>3
    <3>2. CASE \E j \in 1 .. jumps : p = Q(j)
      <4>1. PICK j \in 1 .. jumps : p = Q(j)
        BY <3>2
      <4>2. CASE \E k \in 1 .. traps : q = P(k)
        BY <2>2, <4>1, <4>2 DEF Apart
      <4>3. CASE \E k \in 1 .. jumps : q = Q(k)
        BY <2>6, <4>1, <4>3
      <4> QED
        BY <2>3, <4>2, <4>3
    <3> QED
      BY <2>3, <3>1, <3>2
  <2>8. \A p \in FixupPositions : p >= 0 /\ p + 4 <= len
    BY <2>1, <2>3
  <2>9. \A j, k \in 1 .. Len(trap_fixups) :
          trap_fixups[j].pos = trap_fixups[k].pos => j = k
    BY <2>4 DEF traps, P
  <2> QED
    BY <2>7, <2>8, <2>9 DEF FixupsDisjoint, Apart
<1>2. Spec => []Spaced
  BY SpacedInit, SpacedStep, LayoutInvariant, PTL DEF Spec
<1> QED
  BY <1>1, <1>2, LayoutInvariant, PTL

-----------------------------------------------------------------------------
(***************************************************************************)
(* Where the jumps of a block go: a second invariant, on top of the first. *)
(* Every branch and every check is noted with the position it has; what a  *)
(* fixup writes stays, as no other fixup writes there; and the pads lie    *)
(* where their number says.                                                *)
(***************************************************************************)
\* What is noted for the branch of instruction i, and for its check c.
BranchMark(i) ==
  [pos |-> InBody(i, BranchEnd(ops[i + 1].op)), target |-> BranchTarget(i)]

CheckMark(i, c) ==
  [pos      |-> InBody(i, Checks(ops[i + 1].op)[c].end),
   id       |-> Checks(ops[i + 1].op)[c].id,
   inst_idx |-> i]

BranchesNoted ==
  Emitted =>
    \A i \in 0 .. (Len(ops) - 1) :
      i < Len(jump_targets) /\ ops[i + 1].op \in Branches =>
        \E k \in 1 .. Len(jump_fixups) : jump_fixups[k] = BranchMark(i)

ChecksNoted ==
  Emitted =>
    \A i \in 0 .. (Len(ops) - 1) :
      i < Len(jump_targets) =>
        \A c \in 1 .. Len(Checks(ops[i + 1].op)) :
          \E k \in 1 .. Len(trap_fixups) : trap_fixups[k] = CheckMark(i, c)

Aim(target) == IF target \in 0 .. Len(ops) THEN target ELSE Len(ops)

JumpWritten(k) ==
  LET pos == jump_fixups[k].pos
  IN  pos \in DOMAIN word
        /\ word[pos] = jump_targets[Aim(jump_fixups[k].target) + 1] - (pos + 4)

TrapWritten(k) ==
  LET pos == trap_fixups[k].pos
  IN  pos \in DOMAIN word /\ word[pos] = trap_targets[k] - (pos + 4)

FixupsStay ==
  /\ \A k \in 1 .. Len(jump_fixups) :
       (at = "jumps" /\ k <= idx) \/ at \in {"traps", "compiled"} => JumpWritten(k)
  /\ \A k \in 1 .. Len(trap_fixups) :
       (at = "traps" /\ k <= idx) \/ at = "compiled" => TrapWritten(k)

PadsPlaced ==
  at \in {"pads", "jumps", "traps", "compiled"} =>
    /\ \A k \in 1 .. Len(trap_targets) : trap_targets[k] = PadStart(k)
    /\ at = "pads" => len = PadStart(idx + 1)

Aimed == BranchesNoted /\ ChecksNoted /\ FixupsStay /\ PadsPlaced

(***************************************************************************)
(* Emission.                                                               *)
(***************************************************************************)
LEMMA EmitChecksAimed == LayoutInv /\ EmitChecks => Aimed'
<1> SUFFICES ASSUME LayoutInv, EmitChecks PROVE Aimed'
  OBVIOUS
<1>1. at' = "ops" /\ jump_targets' = <<>> /\ Len(jump_fixups') = 0
  BY DEF EmitChecks, LayoutInv, StartsNoted
<1>2. Len(jump_targets') = 0
  BY <1>1
<1>3. BranchesNoted' /\ ChecksNoted'
  BY <1>2 DEF BranchesNoted, ChecksNoted
<1> QED
  BY <1>1, <1>3 DEF Aimed, FixupsStay, PadsPlaced

LEMMA EmitOpAimed == LayoutInv /\ Aimed /\ EmitOp => Aimed'
<1> SUFFICES ASSUME LayoutInv, Aimed, EmitOp PROVE Aimed'
  OBVIOUS
<1>0. PICK j \in Nat : j = idx
  BY DEF LayoutInv, TypeOK
<1> DEFINE op    == ops[j + 1].op
           start == len + PATH_TRACING
           noted == Noted(op, start, j)
           jump  == [pos |-> start + BranchEnd(op) - 4, target |-> BranchTarget(j)]
           old   == Len(trap_fixups)
           jumps == Len(jump_fixups)
           n     == Len(Checks(op))
<1>1. /\ op \in JitOps /\ at = "ops" /\ at' = "ops" /\ ops' = ops
      /\ idx = j /\ j < Len(ops) /\ ops \in Seq(Instruction)
      /\ len \in Nat /\ start \in Nat /\ idx' = j + 1
      /\ trap_fixups \in Seq(TrapFixup) /\ jump_fixups \in Seq(JumpFixup)
      /\ jump_targets \in Seq(Nat) /\ Len(jump_targets) = j
  BY <1>0 DEF EmitOp, LayoutInv, TypeOK, StartsNoted, PATH_TRACING
<1>2. /\ Len(jump_targets') = j + 1
      /\ jump_targets'[j + 1] = len
      /\ \A i \in 0 .. (j - 1) : jump_targets'[i + 1] = jump_targets[i + 1]
  <2>1. jump_targets' = Append(jump_targets, len)
    BY DEF EmitOp
  <2> QED
    BY <1>1, <2>1
<1>3. /\ old \in Nat /\ n \in Nat
      /\ Len(trap_fixups') = old + n
      /\ \A k \in 1 .. old : trap_fixups'[k] = trap_fixups[k]
      /\ \A c \in 1 .. n : trap_fixups'[old + c] = noted[c]
  <2>1. noted \in Seq(TrapFixup) /\ Len(noted) = n
    BY <1>1, NotedFixups
  <2>2. trap_fixups' = trap_fixups \o noted
    BY <1>1 DEF EmitOp
  <2>3. n \in Nat
    BY <2>1
  <2> HIDE DEF noted, n
  <2>4. /\ Len(trap_fixups \o noted) = old + n
        /\ \A k \in 1 .. old + n :
             (trap_fixups \o noted)[k] = IF k <= old THEN trap_fixups[k] ELSE noted[k - old]
    BY <1>1, <2>1, ConcatProperties
  <2>5. \A c \in 1 .. n : old + c \in 1 .. old + n /\ ~(old + c <= old) /\ (old + c) - old = c
    BY <1>1, <2>3
  <2>6. \A k \in 1 .. old : k \in 1 .. old + n
    BY <1>1, <2>3
  <2> QED
    BY <1>1, <2>2, <2>3, <2>4, <2>5, <2>6
<1>4. \A c \in 1 .. n : noted[c] = CheckMark(j, c)'
  <2> TAKE c \in 1 .. n
  <2>1. Checks(op)[c].end \in Nat /\ Checks(op)[c].id \in Nat
    <3>1. Checks(op) \in Seq(CheckType)
      BY <1>1, TemplateFacts DEF WellPlaced
    <3>2. Checks(op)[c] \in CheckType
      BY <3>1
    <3> QED
      BY <3>2 DEF CheckType
  <2>2. noted[c] = Fixup(start + Checks(op)[c].end, Checks(op)[c].id, j)
    BY DEF Noted
  <2>3. PICK stop \in Nat : stop = Checks(op)[c].end
    BY <2>1
  <2>4. InBody(j, stop)' = (start + stop) - 4
    BY <1>1, <1>2 DEF InBody, PATH_TRACING
  <2>5. (ops[j + 1].op)' = op
    BY <1>1
  <2>6. CheckMark(j, c)' = [pos |-> (start + stop) - 4, id |-> Checks(op)[c].id, inst_idx |-> j]
    BY <2>3, <2>4, <2>5 DEF CheckMark
  <2>7. noted[c] = Fixup(start + stop, Checks(op)[c].id, j)
    BY <2>2, <2>3
  <2>8. \A e, id : Fixup(e, id, j) = [pos |-> e - 4, id |-> id, inst_idx |-> j]
    BY Zenon DEF Fixup
  <2> QED
    BY <2>6, <2>7, <2>8, Zenon
<1>5. /\ jumps \in Nat /\ Len(jump_fixups') >= jumps
      /\ \A k \in 1 .. jumps : jump_fixups'[k] = jump_fixups[k]
      /\ op \in Branches =>
           Len(jump_fixups') = jumps + 1 /\ jump_fixups'[jumps + 1] = BranchMark(j)'
  <2>1. CASE op \in Branches
    <3>1. jump_fixups' = Append(jump_fixups, jump)
      BY <1>1, <2>1 DEF EmitOp
    <3>2. jump = BranchMark(j)'
      <4>1. PICK stop \in Nat : stop = BranchEnd(op)
        BY <1>1, <2>1, TemplateFacts DEF WellPlaced
      <4>2. InBody(j, stop)' = start + stop - 4
        BY <1>1, <1>2 DEF InBody, PATH_TRACING
      <4>3. BranchTarget(j)' = BranchTarget(j)
        BY <1>1 DEF BranchTarget
      <4> QED
        BY <1>1, <4>1, <4>2, <4>3 DEF BranchMark
    <3> HIDE DEF jump
    <3>3. /\ Len(jump_fixups') = jumps + 1 /\ jump_fixups'[jumps + 1] = jump
          /\ \A k \in 1 .. jumps : jump_fixups'[k] = jump_fixups[k]
      BY <1>1, <3>1
    <3> QED
      BY <1>1, <3>2, <3>3
  <2>2. CASE op \notin Branches
    BY <1>1, <2>2 DEF EmitOp
  <2> QED
    BY <2>1, <2>2
<1>6. \A i \in 0 .. (j - 1) :
        /\ BranchMark(i)' = BranchMark(i)
        /\ \A c : CheckMark(i, c)' = CheckMark(i, c)
  BY <1>1, <1>2 DEF BranchMark, CheckMark, InBody, BranchTarget
<1>7. BranchesNoted'
  <2> SUFFICES ASSUME NEW i \in 0 .. (Len(ops) - 1), i < j + 1, ops[i + 1].op \in Branches
               PROVE  \E k \in 1 .. Len(jump_fixups') : jump_fixups'[k] = BranchMark(i)'
    BY <1>1, <1>2 DEF BranchesNoted
  <2>1. CASE i = j
    <3>1. jumps + 1 \in 1 .. Len(jump_fixups')
      BY <1>5, <2>1
    <3> QED
      BY <1>5, <2>1, <3>1
  <2>2. CASE i # j
    <3>1. i \in 0 .. (j - 1) /\ i < Len(jump_targets)
      BY <1>1, <2>2
    <3>2. PICK k \in 1 .. jumps : jump_fixups[k] = BranchMark(i)
      BY <1>1, <3>1 DEF Aimed, BranchesNoted, Emitted
    <3>3. k \in 1 .. Len(jump_fixups')
      BY <1>1, <1>5, <3>2
    <3> QED
      BY <1>5, <1>6, <3>1, <3>2, <3>3
  <2> QED
    BY <2>1, <2>2
<1>8. ChecksNoted'
  <2> SUFFICES ASSUME NEW i \in 0 .. (Len(ops) - 1), i < j + 1,
                      NEW c \in 1 .. Len(Checks(ops[i + 1].op))
               PROVE  \E k \in 1 .. Len(trap_fixups') : trap_fixups'[k] = CheckMark(i, c)'
    BY <1>1, <1>2 DEF ChecksNoted
  <2>1. CASE i = j
    <3>1. c \in 1 .. n
      BY <2>1
    <3>2. old + c \in 1 .. Len(trap_fixups')
      BY <1>3, <3>1
    <3> QED
      BY <1>3, <1>4, <2>1, <3>1, <3>2
  <2>2. CASE i # j
    <3>1. i \in 0 .. (j - 1) /\ i < Len(jump_targets)
      BY <1>1, <2>2
    <3>2. PICK k \in 1 .. old : trap_fixups[k] = CheckMark(i, c)
      BY <1>1, <3>1 DEF Aimed, ChecksNoted, Emitted
    <3>3. k \in 1 .. Len(trap_fixups')
      BY <1>3, <3>2
    <3> QED
      BY <1>3, <1>6, <3>1, <3>2, <3>3
  <2> QED
    BY <2>1, <2>2
<1>9. FixupsStay' /\ PadsPlaced'
  BY <1>1 DEF FixupsStay, PadsPlaced
<1> QED
  BY <1>7, <1>8, <1>9 DEF Aimed

\* What was noted stays noted when only the end of the last instruction is
\* added to the starts.
LEMMA NotedStays ==
  ASSUME LayoutInv, Aimed, Emitted,
         ops' = ops, jump_fixups' = jump_fixups, trap_fixups' = trap_fixups,
         \A i \in 0 .. (Len(ops) - 1) :
           i < Len(jump_targets) /\ jump_targets'[i + 1] = jump_targets[i + 1]
  PROVE  BranchesNoted' /\ ChecksNoted'
<1>1. \A i \in 0 .. (Len(ops) - 1) :
        /\ BranchMark(i)' = BranchMark(i)
        /\ \A c : CheckMark(i, c)' = CheckMark(i, c)
  BY DEF BranchMark, CheckMark, InBody, BranchTarget
<1>2. BranchesNoted'
  <2> SUFFICES ASSUME NEW i \in 0 .. (Len(ops) - 1), ops[i + 1].op \in Branches
               PROVE  \E k \in 1 .. Len(jump_fixups) : jump_fixups[k] = BranchMark(i)'
    BY DEF BranchesNoted
  <2>1. \E k \in 1 .. Len(jump_fixups) : jump_fixups[k] = BranchMark(i)
    BY DEF Aimed, BranchesNoted
  <2> QED
    BY <1>1, <2>1
<1>3. ChecksNoted'
  <2> SUFFICES ASSUME NEW i \in 0 .. (Len(ops) - 1),
                      NEW c \in 1 .. Len(Checks(ops[i + 1].op))
               PROVE  \E k \in 1 .. Len(trap_fixups) : trap_fixups[k] = CheckMark(i, c)'
    BY DEF ChecksNoted
  <2>1. \E k \in 1 .. Len(trap_fixups) : trap_fixups[k] = CheckMark(i, c)
    BY DEF Aimed, ChecksNoted
  <2> QED
    BY <1>1, <2>1
<1> QED
  BY <1>2, <1>3

LEMMA EmitEpilogueAimed == LayoutInv /\ Aimed /\ EmitEpilogue => Aimed'
<1> SUFFICES ASSUME LayoutInv, Aimed, EmitEpilogue PROVE Aimed'
  OBVIOUS
<1>1. /\ at = "ops" /\ at' = "pads" /\ idx = Len(ops) /\ idx' = 0 /\ ops' = ops
      /\ Len(ops) \in Nat /\ len \in Nat
      /\ jump_targets \in Seq(Nat) /\ Len(jump_targets) = idx
      /\ jump_targets' = Append(jump_targets, len) /\ len' = len + EPILOGUE
      /\ jump_fixups' = jump_fixups /\ trap_fixups' = trap_fixups
      /\ trap_targets' = <<>>
  BY DEF EmitEpilogue, LayoutInv, TypeOK, StartsNoted, PadsAligned
<1>2. /\ jump_targets'[Len(ops) + 1] = len
      /\ \A i \in 0 .. (Len(ops) - 1) :
           i < Len(jump_targets) /\ jump_targets'[i + 1] = jump_targets[i + 1]
  BY <1>1
<1>3. Emitted
  BY <1>1 DEF Emitted
<1>4. BranchesNoted' /\ ChecksNoted'
  BY <1>1, <1>2, <1>3, NotedStays
<1>5. PadStart(1)' = len + EPILOGUE
  BY <1>1, <1>2 DEF PadStart
<1>6. PadsPlaced'
  BY <1>1, <1>5 DEF PadsPlaced
<1> QED
  BY <1>1, <1>4, <1>6 DEF Aimed, FixupsStay

(***************************************************************************)
(* Pads.                                                                   *)
(***************************************************************************)
\* A pad that starts at a multiple of 16 is filled up to 48 bytes.
LEMMA PadSize ==
  ASSUME NEW n \in Nat, n % 16 = 0
  PROVE  RoundUp(n + TRAP_PAD) = n + 48
<1>1. (n + 44) % 16 = 12
  OBVIOUS
<1> QED
  BY <1>1 DEF RoundUp, TRAP_PAD

LEMMA PadAfterPad ==
  ASSUME LayoutInv, jump_targets[Len(ops) + 1] \in Nat, NEW k \in Nat \ {0},
         k > 1 => PadStart(k) % 16 = 0
  PROVE  PadStart(k) \in Nat /\ RoundUp(PadStart(k) + TRAP_PAD) = PadStart(k + 1)
<1> DEFINE first == jump_targets[Len(ops) + 1] + EPILOGUE
           R     == RoundUp(first + TRAP_PAD)
<1>1. first \in Nat /\ first + TRAP_PAD \in Nat
  BY DEF EPILOGUE, TRAP_PAD
<1>2. R \in Nat
  BY <1>1, RoundUpAligned
<1>3. RoundUp(TRAP_PAD) = 48
  BY DEF RoundUp, TRAP_PAD
<1>4. CASE k = 1
  <2>1. PadStart(1) = first /\ PadStart(2) = R + (2 - 2) * RoundUp(TRAP_PAD)
    BY DEF PadStart
  <2> HIDE DEF R, first
  <2>2. PadStart(2) = R
    BY <1>2, <1>3, <2>1
  <2> QED
    BY <1>1, <1>4, <2>1, <2>2 DEF R
<1>5. CASE k > 1
  <2>1. /\ PadStart(k) = R + (k - 2) * RoundUp(TRAP_PAD)
        /\ PadStart(k + 1) = R + ((k + 1) - 2) * RoundUp(TRAP_PAD)
    BY <1>5 DEF PadStart
  <2> HIDE DEF R, first
  <2>2. PadStart(k) = R + (k - 2) * 48 /\ PadStart(k + 1) = R + (k - 1) * 48
    BY <1>3, <2>1
  <2>3. PadStart(k) \in Nat /\ PadStart(k + 1) = PadStart(k) + 48
    BY <1>2, <1>5, <2>2
  <2> QED
    BY <1>5, <2>3, PadSize
<1> QED
  BY <1>4, <1>5

LEMMA EmitPadAimed == LayoutInv /\ Aimed /\ EmitPad => Aimed'
<1> SUFFICES ASSUME LayoutInv, Aimed, EmitPad PROVE Aimed'
  OBVIOUS
<1>1. /\ at = "pads" /\ at' = "pads" /\ idx \in Nat /\ idx' = idx + 1
      /\ ops' = ops /\ jump_targets' = jump_targets
      /\ jump_fixups' = jump_fixups /\ trap_fixups' = trap_fixups
      /\ trap_targets \in Seq(Nat) /\ Len(trap_targets) = idx
      /\ trap_targets' = Append(trap_targets, len)
      /\ len \in Nat /\ len' = RoundUp(len + TRAP_PAD)
      /\ idx > 0 => len % 16 = 0
      /\ jump_targets \in Seq(Nat) /\ Len(jump_targets) = Len(ops) + 1 /\ Len(ops) \in Nat
  BY DEF EmitPad, LayoutInv, TypeOK, PadsAligned, StartsNoted
<1>2. \A i \in 0 .. (Len(ops) - 1) :
        i < Len(jump_targets) /\ jump_targets'[i + 1] = jump_targets[i + 1]
  BY <1>1
<1>3. BranchesNoted' /\ ChecksNoted'
  BY <1>1, <1>2, NotedStays DEF Emitted
<1>4. /\ len = PadStart(idx + 1)
      /\ \A k \in 1 .. idx : trap_targets[k] = PadStart(k)
  BY <1>1 DEF Aimed, PadsPlaced
<1>5. jump_targets[Len(ops) + 1] \in Nat
  BY <1>1
<1>6. len' = PadStart(idx + 2)
  <2> DEFINE next == idx + 1
  <2>1. next \in Nat \ {0} /\ (next > 1 => PadStart(next) % 16 = 0)
    BY <1>1, <1>4
  <2> HIDE DEF next
  <2>2. RoundUp(PadStart(next) + TRAP_PAD) = PadStart(next + 1)
    BY <1>5, <2>1, PadAfterPad
  <2>3. next + 1 = idx + 2
    BY <1>1 DEF next
  <2> QED
    BY <1>1, <1>4, <2>2, <2>3 DEF next
<1>7. \A k \in Nat : PadStart(k)' = PadStart(k)
  BY <1>1 DEF PadStart
<1>8. \A k \in 1 .. Len(trap_targets') : trap_targets'[k] = PadStart(k)
  <2>1. Len(trap_targets') = idx + 1
    BY <1>1
  <2>2. \A k \in 1 .. idx : trap_targets'[k] = trap_targets[k]
    BY <1>1
  <2>3. trap_targets'[idx + 1] = len
    BY <1>1
  <2> QED
    BY <1>1, <1>4, <2>1, <2>2, <2>3
<1>9. PadsPlaced'
  <2>1. \A k \in 1 .. Len(trap_targets') : k \in Nat
    OBVIOUS
  <2>2. idx' + 1 = idx + 2 /\ idx + 2 \in Nat
    BY <1>1
  <2> QED
    BY <1>6, <1>7, <1>8, <2>1, <2>2 DEF PadsPlaced
<1> QED
  BY <1>1, <1>3, <1>9 DEF Aimed, FixupsStay

(***************************************************************************)
(* Fixups.                                                                 *)
(***************************************************************************)
\* The positions of the fixups are different.
LEMMA PositionsDiffer ==
  ASSUME LayoutInv, Spaced
  PROVE  /\ \A k \in 1 .. Len(trap_fixups) : trap_fixups[k].pos \in Nat
         /\ \A k \in 1 .. Len(jump_fixups) : jump_fixups[k].pos \in Nat
         /\ \A j, k \in 1 .. Len(trap_fixups) :
              j # k => trap_fixups[j].pos # trap_fixups[k].pos
         /\ \A j, k \in 1 .. Len(jump_fixups) :
              j # k => jump_fixups[j].pos # jump_fixups[k].pos
         /\ \A j \in 1 .. Len(trap_fixups), k \in 1 .. Len(jump_fixups) :
              trap_fixups[j].pos # jump_fixups[k].pos
<1> DEFINE traps == Len(trap_fixups)
           jumps == Len(jump_fixups)
           P(k)  == trap_fixups[k].pos
           Q(k)  == jump_fixups[k].pos
<1>1. /\ traps \in Nat /\ jumps \in Nat
      /\ \A k \in 1 .. traps : P(k) \in Nat
      /\ \A k \in 1 .. jumps : Q(k) \in Nat
  <2>1. trap_fixups \in Seq(TrapFixup) /\ jump_fixups \in Seq(JumpFixup)
    BY DEF LayoutInv, TypeOK
  <2>2. /\ \A k \in 1 .. Len(trap_fixups) : trap_fixups[k] \in TrapFixup
        /\ \A k \in 1 .. Len(jump_fixups) : jump_fixups[k] \in JumpFixup
    BY <2>1
  <2> QED
    BY <2>1, <2>2 DEF TrapFixup, JumpFixup
<1>2. /\ \A j, k \in 1 .. traps : j < k => P(j) + 4 <= P(k)
      /\ \A j, k \in 1 .. jumps : j < k => Q(j) + 4 <= Q(k)
      /\ \A j \in 1 .. traps, k \in 1 .. jumps : Apart(P(j), Q(k))
  BY DEF Spaced
<1> HIDE DEF traps, jumps, P, Q
<1>3. /\ \A j, k \in 1 .. traps : j # k => P(j) # P(k)
      /\ \A j, k \in 1 .. jumps : j # k => Q(j) # Q(k)
      /\ \A j \in 1 .. traps, k \in 1 .. jumps : P(j) # Q(k)
  BY <1>1, <1>2 DEF Apart
<1> QED
  BY <1>1, <1>3 DEF traps, jumps, P, Q

\* A write at another position leaves what a fixup wrote.
LEMMA WrittenStays ==
  ASSUME LayoutInv, NEW pos \in Nat, NEW value \in Int, Write(pos, value),
         UNCHANGED <<ops, lists>>
  PROVE  /\ \A k \in 1 .. Len(jump_fixups) :
              JumpWritten(k) /\ jump_fixups[k].pos # pos => JumpWritten(k)'
         /\ \A k \in 1 .. Len(trap_fixups) :
              TrapWritten(k) /\ trap_fixups[k].pos # pos => TrapWritten(k)'
<1>1. /\ DOMAIN word' = DOMAIN word \cup {pos}
      /\ \A p \in DOMAIN word : p # pos => word'[p] = word[p]
  BY WriteProperties DEF LayoutInv
<1>2. /\ ops' = ops /\ jump_targets' = jump_targets /\ jump_fixups' = jump_fixups
      /\ trap_fixups' = trap_fixups /\ trap_targets' = trap_targets
  BY DEF lists
<1>3. \A k : Aim(jump_fixups[k].target)' = Aim(jump_fixups[k].target)
  BY <1>2 DEF Aim
<1> QED
  BY <1>1, <1>2, <1>3 DEF JumpWritten, TrapWritten

\* Nothing else changes when a fixup is applied, or the next part begins.
LEMMA FrameAimed ==
  ASSUME LayoutInv, Aimed, UNCHANGED <<ops, len, lists>>,
         at \in {"pads", "jumps", "traps", "compiled"},
         at' \in {"jumps", "traps", "compiled"}
  PROVE  BranchesNoted' /\ ChecksNoted' /\ PadsPlaced'
<1>1. /\ ops' = ops /\ jump_targets' = jump_targets /\ jump_fixups' = jump_fixups
      /\ trap_fixups' = trap_fixups /\ trap_targets' = trap_targets
  BY DEF lists
<1>2. \A i \in 0 .. (Len(ops) - 1) : i < Len(jump_targets)
  <2>1. Len(jump_targets) = Len(ops) + 1 /\ Len(ops) \in Nat
    BY DEF LayoutInv, StartsNoted, TypeOK
  <2> QED
    BY <2>1
<1>3. BranchesNoted' /\ ChecksNoted'
  BY <1>1, <1>2, NotedStays DEF Emitted
<1>4. \A k : PadStart(k)' = PadStart(k)
  BY <1>1 DEF PadStart
<1> QED
  BY <1>1, <1>3, <1>4 DEF Aimed, PadsPlaced

LEMMA FixJumpAimed == LayoutInv /\ Spaced /\ Aimed /\ FixJump => Aimed'
<1> SUFFICES ASSUME LayoutInv, Spaced, Aimed, FixJump PROVE Aimed'
  OBVIOUS
<1>0. PICK j \in Nat : j = idx
  BY DEF LayoutInv, TypeOK
<1> DEFINE fixup == jump_fixups[j + 1]
           value == jump_targets[Aim(fixup.target) + 1] - (fixup.pos + 4)
<1>1. /\ at = "jumps" /\ at' = "jumps" /\ idx = j /\ idx' = j + 1
      /\ j < Len(jump_fixups) /\ jump_fixups \in Seq(JumpFixup)
      /\ UNCHANGED <<ops, len, lists>>
  BY <1>0 DEF FixJump, LayoutInv, TypeOK
<1>2. Write(fixup.pos, value)
  BY <1>0 DEF FixJump, Aim
<1>3. j + 1 \in 1 .. Len(jump_fixups)
  BY <1>1
<1>4. fixup.pos \in Nat /\ value \in Int
  <2>1. fixup.pos \in Nat
    BY <1>3, PositionsDiffer
  <2>2. Len(jump_targets) = Len(ops) + 1 /\ jump_targets \in Seq(Nat) /\ Len(ops) \in Nat
    BY <1>1 DEF LayoutInv, TypeOK, StartsNoted
  <2>3. Aim(fixup.target) \in 0 .. Len(ops)
    BY <2>2 DEF Aim
  <2>4. jump_targets[Aim(fixup.target) + 1] \in Nat
    BY <2>2, <2>3
  <2> QED
    BY <2>1, <2>4
<1>5. /\ ops' = ops /\ jump_targets' = jump_targets /\ jump_fixups' = jump_fixups
  BY <1>1 DEF lists
<1>6. JumpWritten(j + 1)'
  <2>1. DOMAIN word' = DOMAIN word \cup {fixup.pos} /\ word'[fixup.pos] = value
    <3> HIDE DEF fixup, value
    <3> QED
      BY <1>2, <1>4, WriteProperties DEF LayoutInv
  <2> QED
    BY <1>5, <2>1 DEF JumpWritten, Aim
<1>7. \A k \in 1 .. Len(jump_fixups) : k <= j => JumpWritten(k)'
  <2> TAKE k \in 1 .. Len(jump_fixups)
  <2> HAVE k <= j
  <2>1. JumpWritten(k)
    BY <1>1 DEF Aimed, FixupsStay
  <2>2. jump_fixups[k].pos # fixup.pos
    BY <1>1, <1>3, PositionsDiffer
  <2> HIDE DEF fixup, value
  <2> QED
    BY <1>1, <1>2, <1>4, <2>1, <2>2, WrittenStays
<1>8. FixupsStay'
  <2>1. \A k \in 1 .. Len(jump_fixups) : k <= j + 1 => JumpWritten(k)'
    BY <1>1, <1>6, <1>7
  <2> QED
    BY <1>1, <1>5, <2>1 DEF FixupsStay
<1>9. BranchesNoted' /\ ChecksNoted' /\ PadsPlaced'
  BY <1>1, FrameAimed
<1> QED
  BY <1>8, <1>9 DEF Aimed

LEMMA FixTrapAimed == LayoutInv /\ Spaced /\ Aimed /\ FixTrap => Aimed'
<1> SUFFICES ASSUME LayoutInv, Spaced, Aimed, FixTrap PROVE Aimed'
  OBVIOUS
<1>0. PICK j \in Nat : j = idx
  BY DEF LayoutInv, TypeOK
<1> DEFINE fixup == trap_fixups[j + 1]
           value == trap_targets[j + 1] - (fixup.pos + 4)
<1>1. /\ at = "traps" /\ at' = "traps" /\ idx = j /\ idx' = j + 1
      /\ j < Len(trap_fixups) /\ trap_fixups \in Seq(TrapFixup)
      /\ trap_targets \in Seq(Nat) /\ Len(trap_targets) = Len(trap_fixups)
      /\ UNCHANGED <<ops, len, lists>>
      /\ Write(fixup.pos, value)
  BY <1>0 DEF FixTrap, LayoutInv, TypeOK, PadsAligned
<1>2. j + 1 \in 1 .. Len(trap_fixups)
  BY <1>1
<1>3. fixup.pos \in Nat /\ value \in Int
  <2>1. fixup.pos \in Nat
    BY <1>2, PositionsDiffer
  <2>2. trap_targets[j + 1] \in Nat
    BY <1>1
  <2> QED
    BY <2>1, <2>2
<1>4. /\ trap_fixups' = trap_fixups /\ trap_targets' = trap_targets
      /\ jump_fixups' = jump_fixups
  BY <1>1 DEF lists
<1>5. TrapWritten(j + 1)'
  <2>1. DOMAIN word' = DOMAIN word \cup {fixup.pos} /\ word'[fixup.pos] = value
    <3> HIDE DEF fixup, value
    <3> QED
      BY <1>1, <1>3, WriteProperties DEF LayoutInv
  <2> QED
    BY <1>4, <2>1 DEF TrapWritten
<1>6. \A k \in 1 .. Len(trap_fixups) : k <= j => TrapWritten(k)'
  <2> TAKE k \in 1 .. Len(trap_fixups)
  <2> HAVE k <= j
  <2>1. TrapWritten(k)
    BY <1>1 DEF Aimed, FixupsStay
  <2>2. trap_fixups[k].pos # fixup.pos
    BY <1>1, <1>2, PositionsDiffer
  <2> HIDE DEF fixup, value
  <2> QED
    BY <1>1, <1>3, <2>1, <2>2, WrittenStays
<1>7. \A k \in 1 .. Len(jump_fixups) : JumpWritten(k)'
  <2> TAKE k \in 1 .. Len(jump_fixups)
  <2>1. JumpWritten(k)
    BY <1>1 DEF Aimed, FixupsStay
  <2>2. jump_fixups[k].pos # fixup.pos
    BY <1>2, PositionsDiffer
  <2> HIDE DEF fixup, value
  <2> QED
    BY <1>1, <1>3, <2>1, <2>2, WrittenStays
<1>8. FixupsStay'
  <2>1. \A k \in 1 .. Len(trap_fixups) : k <= j + 1 => TrapWritten(k)'
    BY <1>1, <1>5, <1>6
  <2> QED
    BY <1>1, <1>4, <1>7, <2>1 DEF FixupsStay
<1>9. BranchesNoted' /\ ChecksNoted' /\ PadsPlaced'
  BY <1>1, FrameAimed
<1> QED
  BY <1>8, <1>9 DEF Aimed

LEMMA NextPartAimed ==
  ASSUME LayoutInv, Aimed, PadsEnd \/ JumpsEnd \/ Insert
  PROVE  Aimed'
<1>1. UNCHANGED <<ops, len, lists, word>>
  BY DEF PadsEnd, JumpsEnd, Insert, NextPart
<1>2. /\ ops' = ops /\ jump_targets' = jump_targets /\ jump_fixups' = jump_fixups
      /\ trap_fixups' = trap_fixups /\ trap_targets' = trap_targets /\ word' = word
  BY <1>1 DEF lists
<1>3. /\ \A k : JumpWritten(k)' = JumpWritten(k)
      /\ \A k : TrapWritten(k)' = TrapWritten(k)
  BY <1>2 DEF JumpWritten, TrapWritten, Aim
<1>4. /\ Len(jump_fixups) \in Nat /\ Len(trap_fixups) \in Nat
      /\ \A k \in 1 .. Len(jump_fixups) : k <= Len(jump_fixups) /\ ~(k <= 0)
      /\ \A k \in 1 .. Len(trap_fixups) : k <= Len(trap_fixups) /\ ~(k <= 0)
  BY DEF LayoutInv, TypeOK
<1>5. CASE PadsEnd
  <2>1. at = "pads" /\ at' = "jumps" /\ idx' = 0
    BY <1>5 DEF PadsEnd, NextPart
  <2>2. FixupsStay'
    BY <1>2, <1>4, <2>1 DEF FixupsStay
  <2> QED
    BY <1>1, <2>1, <2>2, FrameAimed DEF Aimed
<1>6. CASE JumpsEnd
  <2>1. at = "jumps" /\ at' = "traps" /\ idx' = 0 /\ idx = Len(jump_fixups)
    BY <1>6 DEF JumpsEnd, NextPart
  <2>2. \A k \in 1 .. Len(jump_fixups) : JumpWritten(k)
    BY <1>4, <2>1 DEF Aimed, FixupsStay
  <2>3. FixupsStay'
    BY <1>2, <1>3, <1>4, <2>1, <2>2 DEF FixupsStay
  <2> QED
    BY <1>1, <2>1, <2>3, FrameAimed DEF Aimed
<1>7. CASE Insert
  <2>1. at = "traps" /\ at' = "compiled" /\ idx = Len(trap_fixups)
    BY <1>7 DEF Insert, NextPart
  <2>2. /\ \A k \in 1 .. Len(jump_fixups) : JumpWritten(k)
        /\ \A k \in 1 .. Len(trap_fixups) : TrapWritten(k)
    BY <1>4, <2>1 DEF Aimed, FixupsStay
  <2>3. FixupsStay'
    BY <1>2, <1>3, <2>1, <2>2 DEF FixupsStay
  <2> QED
    BY <1>1, <2>1, <2>3, FrameAimed DEF Aimed
<1> QED
  BY <1>5, <1>6, <1>7

LEMMA AimedInit == Init => Aimed
  BY DEF Init, Aimed, BranchesNoted, ChecksNoted, FixupsStay, PadsPlaced, Emitted

LEMMA AimedStep == LayoutInv /\ Spaced /\ Aimed /\ [Next]_vars => Aimed'
<1> SUFFICES ASSUME LayoutInv, Spaced, Aimed, [Next]_vars PROVE Aimed'
  OBVIOUS
<1>1. CASE TooLong \/ JumpOutOfBounds \/ NoTemplate \/ CompileSuper
  <2>1. at' \in {"refused", "checks"}
    BY <1>1 DEF TooLong, JumpOutOfBounds, NoTemplate, Refuse, CompileSuper
  <2> QED
    BY <2>1 DEF Aimed, BranchesNoted, ChecksNoted, FixupsStay, PadsPlaced, Emitted
<1>2. CASE UNCHANGED vars
  <2>1. /\ ops' = ops /\ jump_targets' = jump_targets /\ jump_fixups' = jump_fixups
        /\ trap_fixups' = trap_fixups /\ trap_targets' = trap_targets
        /\ word' = word /\ at' = at /\ idx' = idx /\ len' = len
    BY <1>2 DEF vars, lists
  <2>2. BranchesNoted' = BranchesNoted /\ ChecksNoted' = ChecksNoted
    BY <2>1 DEF BranchesNoted, ChecksNoted, Emitted, BranchMark, CheckMark, InBody,
                BranchTarget
  <2>3. FixupsStay' = FixupsStay
    BY <2>1 DEF FixupsStay, JumpWritten, TrapWritten, Aim
  <2>4. PadsPlaced' = PadsPlaced
    BY <2>1 DEF PadsPlaced, PadStart
  <2> QED
    BY <2>2, <2>3, <2>4 DEF Aimed
<1> QED
  BY <1>1, <1>2, EmitChecksAimed, EmitOpAimed, EmitEpilogueAimed, EmitPadAimed,
     FixJumpAimed, FixTrapAimed, NextPartAimed DEF Next

LEMMA AimedInvariant == Spec => [](LayoutInv /\ Aimed)
<1>1. Init => LayoutInv /\ Spaced /\ Aimed
  BY LayoutInit, SpacedInit, AimedInit
<1>2. LayoutInv /\ Spaced /\ Aimed /\ [Next]_vars => (LayoutInv /\ Spaced /\ Aimed)'
  BY LayoutStep, SpacedStep, AimedStep
<1> QED
  BY <1>1, <1>2, PTL DEF Spec

(***************************************************************************)
(* Theorems.                                                               *)
(***************************************************************************)
\* A branch of a finished block goes where Tier 1 would, whatever the block:
\* the fixup of runtime.rs for it is applied, and no other fixup writes over it.
THEOREM BranchesGoRight == Spec => []BranchesFollowTier1
<1>1. LayoutInv /\ Aimed => BranchesFollowTier1
  <2> SUFFICES ASSUME LayoutInv, Aimed, at = "compiled",
                      NEW i \in 0 .. (Len(ops) - 1), ops[i + 1].op \in Branches
               PROVE  Destination(InBody(i, BranchEnd(ops[i + 1].op)))
                        = jump_targets[Aim(BranchTarget(i)) + 1]
    BY DEF BranchesFollowTier1, Compiled, Aim, BranchTarget
  <2>1. /\ Len(jump_targets) = Len(ops) + 1 /\ Len(ops) \in Nat
        /\ jump_targets \in Seq(Nat)
    BY DEF LayoutInv, StartsNoted, TypeOK
  <2>2. PICK k \in 1 .. Len(jump_fixups) : jump_fixups[k] = BranchMark(i)
    <3>1. i < Len(jump_targets)
      BY <2>1
    <3> QED
      BY <3>1 DEF Aimed, BranchesNoted, Emitted
  <2> DEFINE pos == InBody(i, BranchEnd(ops[i + 1].op))
  <2>3. jump_fixups[k].pos = pos /\ jump_fixups[k].target = BranchTarget(i)
    BY <2>2 DEF BranchMark
  <2>4. word[pos] = jump_targets[Aim(BranchTarget(i)) + 1] - (pos + 4)
    BY <2>3 DEF Aimed, FixupsStay, JumpWritten
  <2>5. pos \in Nat
    <3>1. jump_fixups[k] \in JumpFixup
      BY DEF LayoutInv, TypeOK
    <3> QED
      BY <2>3, <3>1 DEF JumpFixup
  <2>6. jump_targets[Aim(BranchTarget(i)) + 1] \in Nat
    <3>1. Aim(BranchTarget(i)) \in 0 .. Len(ops)
      BY <2>1 DEF Aim
    <3> QED
      BY <2>1, <3>1
  <2> HIDE DEF pos
  <2>7. Destination(pos) = jump_targets[Aim(BranchTarget(i)) + 1]
    BY <2>4, <2>5, <2>6 DEF Destination
  <2> QED
    BY <2>7 DEF pos
<1> QED
  BY <1>1, AimedInvariant, PTL

\* A check of an instruction of a finished block that fails reaches the pad
\* with its trap code and its instruction, whatever the block.
THEOREM ChecksReachPads == Spec => []ChecksReachTheirPads
<1>1. LayoutInv /\ Aimed => ChecksReachTheirPads
  <2> SUFFICES ASSUME LayoutInv, Aimed, at = "compiled",
                      NEW i \in 0 .. (Len(ops) - 1),
                      NEW c \in 1 .. Len(Checks(ops[i + 1].op))
               PROVE  \E k \in 1 .. Len(trap_fixups) :
                        /\ Destination(InBody(i, Checks(ops[i + 1].op)[c].end)) = PadStart(k)
                        /\ trap_fixups[k].id = Checks(ops[i + 1].op)[c].id
                        /\ trap_fixups[k].inst_idx = i
    BY DEF ChecksReachTheirPads, Compiled
  <2>1. /\ Len(jump_targets) = Len(ops) + 1 /\ Len(ops) \in Nat
        /\ Len(trap_targets) = Len(trap_fixups) /\ trap_targets \in Seq(Nat)
    BY DEF LayoutInv, StartsNoted, PadsAligned, TypeOK
  <2>2. PICK k \in 1 .. Len(trap_fixups) : trap_fixups[k] = CheckMark(i, c)
    <3>1. i < Len(jump_targets)
      BY <2>1
    <3> QED
      BY <3>1 DEF Aimed, ChecksNoted, Emitted
  <2> DEFINE pos == InBody(i, Checks(ops[i + 1].op)[c].end)
  <2>3. /\ trap_fixups[k].pos = pos
        /\ trap_fixups[k].id = Checks(ops[i + 1].op)[c].id
        /\ trap_fixups[k].inst_idx = i
    BY <2>2 DEF CheckMark
  <2>4. word[pos] = trap_targets[k] - (pos + 4)
    BY <2>3 DEF Aimed, FixupsStay, TrapWritten
  <2>5. pos \in Nat
    <3>1. trap_fixups[k] \in TrapFixup
      BY DEF LayoutInv, TypeOK
    <3> QED
      BY <2>3, <3>1 DEF TrapFixup
  <2>6. trap_targets[k] \in Nat /\ trap_targets[k] = PadStart(k)
    BY <2>1, <2>2 DEF Aimed, PadsPlaced
  <2> HIDE DEF pos
  <2>7. Destination(pos) = PadStart(k)
    BY <2>4, <2>5, <2>6 DEF Destination
  <2> QED
    BY <2>3, <2>7 DEF pos
<1> QED
  BY <1>1, AimedInvariant, PTL

=============================================================================
