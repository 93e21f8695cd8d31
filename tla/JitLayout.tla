------------------------------ MODULE JitLayout ------------------------------
(***************************************************************************)
(* compile_super of jit/runtime.rs: where in a block's code its parts lie, *)
(* and what the fixups at the end write into it.  The bytes are abstracted *)
(* to their positions: a block is a number of bytes, the places where      *)
(* things start, and the four-byte operands that are written after the     *)
(* instruction that holds them.                                            *)
(*                                                                         *)
(* Every instruction is emitted with the displacement of its checks left   *)
(* zero; `trap_fixups` and `jump_fixups` remember where those are, counted *)
(* back from the end of the code.  A trap pad is emitted for every check,  *)
(* and then the fixups are applied.                                        *)
(***************************************************************************)
EXTENDS Integers, Sequences

CONSTANTS
  Blocks,          \* the sequences of instructions that may be compiled
  MAX_BLOCK_OPS    \* runtime.rs: 256

Branches == {"Jump", "JZ", "Loop"}

JitOps ==
  Branches \cup
  {"Push", "Add", "Sub", "Mul", "Store", "Fetch", "Eq", "Lt", "Gt", "ToR",
   "FromR", "Dup", "Drop", "Swap", "Over", "Inc", "Dec", "Do", "I"}

Instruction == [op : STRING, data : Int]

ASSUME BlocksAssumption ==
  /\ Blocks \subseteq Seq(Instruction)
  /\ MAX_BLOCK_OPS \in Nat

VARIABLES
  ops,           \* the instructions of the block
  at,            \* which part of compile_super is next
  idx,           \* the counter of the loop that emits or applies it
  len,           \* code.len()
  jump_targets,  \* where each instruction starts, and then the epilogue
  trap_fixups,   \* traps_fixups: the checks, in the order they are emitted
  jump_fixups,   \* the branches
  trap_targets,  \* where the pad of each check starts
  word           \* the operands written so far, by position

lists == <<jump_targets, trap_fixups, jump_fixups, trap_targets>>

vars == <<ops, at, idx, len, lists, word>>

(***************************************************************************)
(* The templates: sizes in bytes, and the ends of the jumps in them.       *)
(***************************************************************************)
PROLOGUE == 27

MAGIC_CHECK == 19

VERSION_CHECK == 11

SIZE_CHECK == 14

LOAD_STATE == 16

PATH_TRACING == 54

EPILOGUE == 39

TRAP_PAD == 44

\* The first check, of the magic number, ends here; then those of the
\* version and of the size.
MagicEnd == PROLOGUE + MAGIC_CHECK

VersionEnd == MagicEnd + VERSION_CHECK

SizeEnd == VersionEnd + SIZE_CHECK

\* The operand of `cmp qword [rbx+16], 264`, before the jump of that check.
SizeOperand == SizeEnd - 10

STRUCT_SIZE == 264

BodySize(op) ==
  CASE op = "Push"               -> 36
    [] op = "Add"                -> 63
    [] op = "Sub"                -> 66
    [] op = "Mul"                -> 64
    [] op = "Store"              -> 137
    [] op = "Fetch"              -> 90
    [] op \in {"Eq", "Lt", "Gt"} -> 73
    [] op = "ToR"                -> 47
    [] op = "FromR"              -> 44
    [] op \in {"Dup", "Over"}    -> 33
    [] op = "Drop"               -> 13
    [] op = "Swap"               -> 30
    [] op \in {"Inc", "Dec"}     -> 23
    [] op = "Jump"               -> 5
    [] op = "JZ"                 -> 35
    [] op = "Do"                 -> 92
    [] op = "Loop"               -> 67
    [] OTHER                     -> 36

\* A check that ends `end` bytes into the template and traps with `id`.
Check(end, id) == [end |-> end, id |-> id]

\* Mutant of Checks: the second check of FromR is noted before it is emitted.
ChecksNotedEarly(op) ==
  CASE op = "FromR" -> <<Check(10, 2), Check(10, 1)>>
    [] OTHER        -> <<Check(10, 2)>>

Checks(op) ==
  CASE op = "Push"                    -> <<Check(10, 1)>>
    [] op = "Store"                   -> <<Check(10, 2), Check(53, 3), Check(66, 11),
                                           Check(83, 3), Check(101, 8)>>
    [] op = "Fetch"                   -> <<Check(10, 2), Check(36, 3), Check(49, 11),
                                           Check(66, 3)>>
    [] op = "ToR"                     -> <<Check(10, 2), Check(23, 1)>>
    [] op \in {"FromR", "Dup", "Over"} -> <<Check(10, 2), Check(20, 1)>>
    [] op = "Do"                      -> <<Check(10, 2), Check(71, 1)>>
    [] op \in {"Loop", "I"}           -> <<Check(24, 9)>>
    [] op = "Jump"                    -> <<>>
    [] OTHER                          -> <<Check(10, 2)>>

\* The end of the jump that a branch is compiled to.
BranchEnd(op) ==
  CASE op = "Jump" -> 5
    [] op = "JZ"   -> 35
    [] OTHER       -> 56

\* Mutant of BranchTarget: relative to the branch and not to what follows it.
BranchTargetEarly(i) == i + ops[i + 1].data

\* Instructions are numbered from 0, as in the code.
BranchTarget(i) == i + 1 + ops[i + 1].data

RoundUp(n) == n + ((16 - (n % 16)) % 16)

Fixup(end, id, i) == [pos |-> end - 4, id |-> id, inst_idx |-> i]

\* What is noted for the checks of instruction i, whose template begins at start.
Noted(op, start, i) ==
  [k \in 1 .. Len(Checks(op)) |->
     Fixup(start + Checks(op)[k].end, Checks(op)[k].id, i)]

Write(pos, value) ==
  word' = [p \in DOMAIN word \cup {pos} |-> IF p = pos THEN value ELSE word[p]]

(***************************************************************************)
(* Emission.                                                               *)
(***************************************************************************)
Init ==
  /\ ops \in Blocks
  /\ at = "checks" /\ idx = 0 /\ len = 0
  /\ jump_targets = <<>> /\ trap_fixups = <<>> /\ jump_fixups = <<>>
  /\ trap_targets = <<>>
  /\ word = [p \in {} |-> 0]

Refuse == at' = "refused" /\ UNCHANGED <<ops, idx, len, lists, word>>

TooLong ==
  /\ at = "checks"
  /\ Len(ops) > MAX_BLOCK_OPS
  /\ Refuse

\* What is noted for the version check: ten bytes before the end of the code,
\* which then ends with the size check.
VersionFixup == [pos |-> SizeEnd - 10, id |-> 10, inst_idx |-> 0]

EmitChecks ==
  /\ at = "checks"
  /\ Len(ops) <= MAX_BLOCK_OPS
  /\ at' = "ops"
  /\ len' = SizeEnd + LOAD_STATE
  /\ trap_fixups' = <<Fixup(MagicEnd, 10, 0), VersionFixup, Fixup(SizeEnd, 10, 0)>>
  /\ Write(SizeOperand, STRUCT_SIZE)
  /\ UNCHANGED <<ops, idx, jump_targets, jump_fixups, trap_targets>>

InRange(i) == BranchTarget(i) \in 0 .. Len(ops)

\* The path tracing that precedes every instruction, and its template.  The
\* target of a Loop is not checked.
EmitOp ==
  LET op    == ops[idx + 1].op
      start == len + PATH_TRACING
  IN  /\ at = "ops" /\ idx < Len(ops)
      /\ op \in JitOps
      /\ op \in {"Jump", "JZ"} => InRange(idx)
      /\ jump_targets' = Append(jump_targets, len)
      /\ trap_fixups' = trap_fixups \o Noted(op, start, idx)
      /\ jump_fixups' = IF op \in Branches
                        THEN Append(jump_fixups, [pos    |-> start + BranchEnd(op) - 4,
                                                  target |-> BranchTarget(idx)])
                        ELSE jump_fixups
      /\ len' = start + BodySize(op)
      /\ idx' = idx + 1
      /\ UNCHANGED <<ops, at, trap_targets, word>>

JumpOutOfBounds ==
  /\ at = "ops" /\ idx < Len(ops)
  /\ ops[idx + 1].op \in {"Jump", "JZ"} /\ ~InRange(idx)
  /\ Refuse

\* An error in a release build, a panic in a debug build.
NoTemplate ==
  /\ at = "ops" /\ idx < Len(ops)
  /\ ops[idx + 1].op \notin JitOps
  /\ Refuse

EmitEpilogue ==
  /\ at = "ops" /\ idx = Len(ops)
  /\ at' = "pads" /\ idx' = 0
  /\ jump_targets' = Append(jump_targets, len)
  /\ len' = len + EPILOGUE
  /\ UNCHANGED <<ops, trap_fixups, jump_fixups, trap_targets, word>>

\* Mutant of EmitPad: the position is noted when the pad is complete.
EmitPadNotedLate ==
  /\ at = "pads" /\ idx < Len(trap_fixups)
  /\ len' = RoundUp(len + TRAP_PAD)
  /\ trap_targets' = Append(trap_targets, len')
  /\ idx' = idx + 1
  /\ UNCHANGED <<ops, at, jump_targets, trap_fixups, jump_fixups, word>>

\* The pad of one check, filled up to a multiple of 16.
EmitPad ==
  /\ at = "pads" /\ idx < Len(trap_fixups)
  /\ trap_targets' = Append(trap_targets, len)
  /\ len' = RoundUp(len + TRAP_PAD)
  /\ idx' = idx + 1
  /\ UNCHANGED <<ops, at, jump_targets, trap_fixups, jump_fixups, word>>

(***************************************************************************)
(* Fixups.                                                                 *)
(***************************************************************************)
NextPart(from, to, count) ==
  /\ at = from /\ idx = count
  /\ at' = to /\ idx' = 0
  /\ UNCHANGED <<ops, len, lists, word>>

PadsEnd == NextPart("pads", "jumps", Len(trap_fixups))

\* A target that is no instruction of the block is the epilogue.
FixJump ==
  LET fixup  == jump_fixups[idx + 1]
      target == IF fixup.target \in 0 .. Len(ops) THEN fixup.target ELSE Len(ops)
  IN  /\ at = "jumps" /\ idx < Len(jump_fixups)
      /\ Write(fixup.pos, jump_targets[target + 1] - (fixup.pos + 4))
      /\ idx' = idx + 1
      /\ UNCHANGED <<ops, at, len, lists>>

JumpsEnd == NextPart("jumps", "traps", Len(jump_fixups))

FixTrap ==
  LET fixup == trap_fixups[idx + 1]
  IN  /\ at = "traps" /\ idx < Len(trap_fixups)
      /\ Write(fixup.pos, trap_targets[idx + 1] - (fixup.pos + 4))
      /\ idx' = idx + 1
      /\ UNCHANGED <<ops, at, len, lists>>

\* The block is copied to executable memory and entered into `blocks`.
Insert == NextPart("traps", "compiled", Len(trap_fixups))

\* compile_super is called for the next block, with new local variables.
CompileSuper ==
  /\ at \in {"compiled", "refused"}
  /\ ops' \in Blocks
  /\ at' = "checks" /\ idx' = 0 /\ len' = 0
  /\ jump_targets' = <<>> /\ trap_fixups' = <<>> /\ jump_fixups' = <<>>
  /\ trap_targets' = <<>>
  /\ word' = [p \in {} |-> 0]

Next ==
  \/ TooLong \/ EmitChecks
  \/ EmitOp \/ JumpOutOfBounds \/ NoTemplate \/ EmitEpilogue
  \/ EmitPad \/ PadsEnd
  \/ FixJump \/ JumpsEnd
  \/ FixTrap \/ Insert
  \/ CompileSuper

Spec == Init /\ [][Next]_vars

(***************************************************************************)
(* The type invariant.                                                     *)
(***************************************************************************)
TrapFixup == [pos : Nat, id : Nat, inst_idx : Nat]

JumpFixup == [pos : Nat, target : Int]

TypeOK ==
  /\ ops \in Seq(Instruction)
  /\ at \in {"checks", "ops", "pads", "jumps", "traps", "compiled", "refused"}
  /\ idx \in Nat /\ len \in Nat
  /\ jump_targets \in Seq(Nat) /\ trap_targets \in Seq(Nat)
  /\ trap_fixups \in Seq(TrapFixup) /\ jump_fixups \in Seq(JumpFixup)
  /\ word \in [DOMAIN word -> Int]

(***************************************************************************)
(* Properties.                                                             *)
(***************************************************************************)
\* Where the jump whose displacement is at pos goes.
Destination(pos) == pos + 4 + word[pos]

\* The displacement of the check that ends `end` bytes into instruction i.
InBody(i, end) == jump_targets[i + 1] + PATH_TRACING + end - 4

Compiled == at = "compiled"

FixupPositions ==
  {trap_fixups[k].pos : k \in 1 .. Len(trap_fixups)}
    \cup {jump_fixups[k].pos : k \in 1 .. Len(jump_fixups)}

\* No two fixups write the same bytes, and none writes outside the code: what
\* one fixup writes is what the block has there.
FixupsDisjoint ==
  /\ \A p, q \in FixupPositions : p # q => p + 4 <= q \/ q + 4 <= p
  /\ \A j, k \in 1 .. Len(trap_fixups) : trap_fixups[j].pos = trap_fixups[k].pos => j = k
  /\ \A p \in FixupPositions : p >= 0 /\ p + 4 <= len

\* The branches of a finished block go where Tier 1 would: to the start of the
\* instruction they name, or out of the block at its end.
BranchesFollowTier1 ==
  Compiled =>
    \A i \in 0 .. (Len(ops) - 1) :
      LET op   == ops[i + 1].op
          next == i + 1 + ops[i + 1].data
          to   == IF next \in 0 .. Len(ops) THEN next ELSE Len(ops)
      IN  op \in Branches =>
            Destination(InBody(i, BranchEnd(op))) = jump_targets[to + 1]

\* Pads follow the epilogue, and each but the first starts at a multiple of 16.
PadStart(k) ==
  LET first == jump_targets[Len(ops) + 1] + EPILOGUE
  IN  IF k = 1 THEN first ELSE RoundUp(first + TRAP_PAD) + (k - 2) * RoundUp(TRAP_PAD)

\* A failing check of a finished block reaches the start of the pad that reports
\* its trap code and its instruction.
ChecksReachTheirPads ==
  Compiled =>
    \A i \in 0 .. (Len(ops) - 1) :
      LET checks == Checks(ops[i + 1].op)
      IN  \A c \in 1 .. Len(checks) :
            \E k \in 1 .. Len(trap_fixups) :
              /\ Destination(InBody(i, checks[c].end)) = PadStart(k)
              /\ trap_fixups[k].id = checks[c].id
              /\ trap_fixups[k].inst_idx = i

\* What the code does: the size check turns away every context of STRUCT_SIZE
\* bytes, and call_jit lets in no other, because the fixup of the version
\* check has written over the number it compares with.  No block ever gets as
\* far as its first instruction, which is what Tiers builds on.
EveryBlockRefuses ==
  Compiled =>
    /\ word[SizeOperand] # STRUCT_SIZE
    /\ Destination(SizeEnd - 4) = trap_targets[3] /\ trap_fixups[3].id = 10

(***************************************************************************)
(* What a comment of the code says that the code does not do.              *)
(***************************************************************************)
\* The first three checks, in their order: where each ends, and whether a
\* context fails it.
EntryCheck(context) ==
  << [end |-> MagicEnd,   fails |-> ~context.magic],
     [end |-> VersionEnd, fails |-> ~context.version],
     [end |-> SizeEnd,    fails |-> context.size # word[SizeOperand]] >>

\* A jump that no fixup has reached keeps the zero of its template, and goes
\* to what follows it.
Displacement(pos) == IF pos \in DOMAIN word THEN word[pos] ELSE 0

Leaves(check) == check.fails /\ Displacement(check.end - 4) # 0

\* Where the checks send a context: to its pad, or on behind the last of them.
EntryOf(context) ==
  LET check == EntryCheck(context)
      left  == {k \in DOMAIN check : Leaves(check[k])}
      first == CHOOSE k \in left : \A j \in left : k <= j
  IN  IF left = {} THEN SizeEnd
      ELSE check[first].end + Displacement(check[first].end - 4)

JitContext == [magic : BOOLEAN, version : BOOLEAN, size : {STRUCT_SIZE, 0}]

\* runtime.rs:136: "Fixup for version check trap".  A finished block lets a
\* context with its magic number, its version and its size in, and turns
\* every other away to a pad with trap code 10.
OnlyFittingContextsEnter ==
  Compiled =>
    \A context \in JitContext :
      IF context.magic /\ context.version /\ context.size = STRUCT_SIZE
      THEN EntryOf(context) = SizeEnd
      ELSE \E k \in DOMAIN trap_targets :
             trap_fixups[k].id = 10 /\ EntryOf(context) = trap_targets[k]

=============================================================================
