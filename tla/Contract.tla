------------------------------ MODULE Contract ------------------------------
(***************************************************************************)
(* What the trace optimizer believes of a sequence of instructions:        *)
(* Op::inline_contract and validate_sequence_contract of contract.rs, and  *)
(* build_safe_segments of segmentation.rs, as operators.  The memory part  *)
(* of a contract is left out: nothing reads it.                            *)
(*                                                                         *)
(* A sequence is a piece of a trace, [op, data] records; position p of it  *)
(* is the place before instruction p + 1, as a jump inside the sequence    *)
(* counts.                                                                 *)
(***************************************************************************)
EXTENDS Integers, SequencesExt

\* The ops that have a contract.
Contracted ==
  {"Noop", "Stop", "Cr", "Jump", "Loop", "PLoop", "DoesJump", "DoesPatch", "Push",
   "PushF", "FromR", "RFetch", "I", "Drop", "ToR", "Dot", "Emit", "Throw", "JZ",
   "Square", "Inc", "Dec", "IsZero", "Fetch", "Dup", "Drop2", "Store", "Do", "Nip",
   "Add", "Sub", "Mul", "Div", "Eq", "Lt", "Gt", "Swap", "Over", "Tuck", "Dup2", "Rot"}

\* The others.
Opaque ==
  {"Prim", "Call", "Ret", "Mod", "DivMod", "Execute", "Depth", "FetchC", "StoreC",
   "Yield", "Catch", "Pick", "Roll", "Max", "Min", "Abs", "Negate", "And", "Or", "Xor",
   "Invert", "LShift", "RShift", "Here", "Allot", "Comma", "CompileComma", "J", "Leave",
   "BL", "Super"}

\* An instruction that was executed.
Executed == [op : Contracted \cup Opaque, data : Int]

Takes(pop, push) == [pop |-> pop, push |-> push]

\* The cells that a contract says its op takes from the data stack, and those
\* it leaves there.
DataEffect ==
  [op \in Contracted |->
     CASE op \in {"Noop", "Stop", "Cr", "Jump", "Loop", "PLoop", "DoesJump",
                  "DoesPatch"}                                    -> Takes(0, 0)
       [] op \in {"Push", "PushF", "FromR", "RFetch", "I"}        -> Takes(0, 1)
       [] op \in {"Drop", "ToR", "Dot", "Emit", "Throw", "JZ"}    -> Takes(1, 0)
       [] op \in {"Square", "Inc", "Dec", "IsZero", "Fetch"}      -> Takes(1, 1)
       [] op = "Dup"                                              -> Takes(1, 2)
       [] op \in {"Drop2", "Store", "Do"}                         -> Takes(2, 0)
       [] op \in {"Nip", "Add", "Sub", "Mul", "Div", "Eq", "Lt", "Gt"} -> Takes(2, 1)
       [] op \in {"Swap", "Over"}                                 -> Takes(2, 2)
       [] op = "Tuck"                                             -> Takes(2, 3)
       [] op = "Dup2"                                             -> Takes(2, 4)
       [] op = "Rot"                                              -> Takes(3, 3)]

\* The return stack and the loop stack are one in a contract.
ReturnEffect ==
  [op \in Contracted |->
     CASE op \in {"FromR", "RFetch"} -> Takes(1, 0)
       [] op = "ToR"                 -> Takes(0, 1)
       [] op = "Do"                  -> Takes(0, 2)
       [] op \in {"Loop", "PLoop"}   -> Takes(2, 0)
       [] OTHER                      -> Takes(0, 0)]

Impure == {"Fetch", "Store", "ToR", "FromR", "RFetch", "Dot", "Emit", "Cr",
           "Throw", "Jump", "JZ", "Do", "Loop", "PLoop", "I", "DoesJump",
           "DoesPatch"}

-----------------------------------------------------------------------------
(***************************************************************************)
(* The depth pass.  depth[p] is what the two stacks have gained at         *)
(* position p, Unreached until an instruction before it, or a jump,        *)
(* leads there.                                                            *)
(***************************************************************************)
Unreached == <<>>

\* Mutant of Exits: the branch that JZ takes is not followed.
ExitsFallThrough(ins, next) ==
  CASE ins.op = "Jump" -> {next + ins.data}
    [] OTHER           -> {next}

\* Where an instruction leads that has the position next behind it.
Exits(ins, next) ==
  CASE ins.op = "Jump" -> {next + ins.data}
    [] ins.op = "JZ"   -> {next, next + ins.data}
    [] OTHER           -> {next}

\* Before the first instruction: the pass is at position 0.
NoPass(seq) ==
  [ok    |-> TRUE,
   at    |-> 0,
   depth |-> [p \in 0 .. Len(seq) |-> IF p = 0 THEN <<0, 0>> ELSE Unreached],
   low   |-> <<0, 0>>,
   high  |-> <<0, 0>>]

\* Mutant of Reach: the lowest depth is that after the pushes.
ReachLate(pass, exits, taken, after) ==
  [ok    |-> \A e \in exits : e \in DOMAIN pass.depth /\ pass.depth[e] \in {Unreached, after},
   at    |-> pass.at + 1,
   depth |-> [p \in DOMAIN pass.depth |-> IF p \in exits THEN after ELSE pass.depth[p]],
   low   |-> [k \in 1 .. 2 |-> Min({pass.low[k], after[k]})],
   high  |-> [k \in 1 .. 2 |-> Max({pass.high[k], after[k]})]]

\* An instruction that leads to exits, with the depths between its pops and
\* its pushes, and then.
Reach(pass, exits, taken, after) ==
  [ok    |-> \A e \in exits : e \in DOMAIN pass.depth /\ pass.depth[e] \in {Unreached, after},
   at    |-> pass.at + 1,
   depth |-> [p \in DOMAIN pass.depth |-> IF p \in exits THEN after ELSE pass.depth[p]],
   low   |-> [k \in 1 .. 2 |-> Min({pass.low[k], taken[k]})],
   high  |-> [k \in 1 .. 2 |-> Max({pass.high[k], after[k]})]]

\* One instruction, with its two effects, where the depth is depth.
PassOver(pass, exits, d, r, depth) ==
  Reach(pass, exits, <<depth[1] - d.pop, depth[2] - r.pop>>,
        <<depth[1] - d.pop + d.push, depth[2] - r.pop + r.push>>)

\* Every instruction must have a contract and a position that was reached.
PassOne(pass, ins) ==
  IF pass.ok /\ ins.op \in Contracted /\ pass.depth[pass.at] # Unreached
  THEN PassOver(pass, Exits(ins, pass.at + 1), DataEffect[ins.op], ReturnEffect[ins.op],
                pass.depth[pass.at])
  ELSE [pass EXCEPT !.ok = FALSE]

DepthPass(seq) == FoldLeft(PassOne, NoPass(seq), seq)

-----------------------------------------------------------------------------
(***************************************************************************)
(* The shadow stack, on which the sequence is run symbolically from end to *)
(* end, jumps and all: <<v>> is Sym::Literal(v), <<>> is Sym::Unknown, and *)
(* the last is the top.                                                    *)
(***************************************************************************)
Unknown == <<>>

Top(stack, i) == stack[Len(stack) - i + 1]

Sum(a, b) == IF a # Unknown /\ b # Unknown THEN <<a[1] + b[1]>> ELSE Unknown

\* Mutant of Leaves: Swap takes its operands for exchanged already.
LeavesUnswapped(ins, stack) ==
  CASE ins.op = "Push" -> << <<ins.data>> >>
    [] ins.op = "Dup"  -> <<Top(stack, 1), Top(stack, 1)>>
    [] ins.op = "Swap" -> <<Top(stack, 2), Top(stack, 1)>>
    [] ins.op = "Over" -> <<Top(stack, 2), Top(stack, 1), Top(stack, 2)>>
    [] ins.op = "Add"  -> <<Sum(Top(stack, 1), Top(stack, 2))>>
    [] OTHER -> [k \in 1 .. DataEffect[ins.op].push |-> Unknown]

\* What an instruction leaves on the shadow stack in place of its operands.
Leaves(ins, stack) ==
  CASE ins.op = "Push" -> << <<ins.data>> >>
    [] ins.op = "Dup"  -> <<Top(stack, 1), Top(stack, 1)>>
    [] ins.op = "Swap" -> <<Top(stack, 1), Top(stack, 2)>>
    [] ins.op = "Over" -> <<Top(stack, 2), Top(stack, 1), Top(stack, 2)>>
    [] ins.op = "Add"  -> <<Sum(Top(stack, 1), Top(stack, 2))>>
    [] OTHER -> [k \in 1 .. DataEffect[ins.op].push |-> Unknown]

\* Dup and Drop make do without an operand; Over really leaves three, where
\* its contract says two.
ShadowOne(shadow, ins) ==
  LET stack == shadow.stack
      pop   == DataEffect[ins.op].pop
  IN  CASE Len(stack) >= pop ->
             [shadow EXCEPT !.stack = SubSeq(stack, 1, Len(stack) - pop)
                                        \o Leaves(ins, stack)]
        [] Len(stack) < pop /\ ins.op = "Dup"  -> [shadow EXCEPT !.stack = <<Unknown>>]
        [] Len(stack) < pop /\ ins.op = "Drop" -> shadow
        [] OTHER -> [shadow EXCEPT !.ok = FALSE]

ShadowPass(seq, unknowns) ==
  FoldLeft(ShadowOne, [ok |-> TRUE, stack |-> [k \in 1 .. unknowns |-> Unknown]], seq)

-----------------------------------------------------------------------------
(***************************************************************************)
(* validate_sequence_contract.                                             *)
(***************************************************************************)
Accepted(seq) ==
  \E pass \in {DepthPass(seq)} :
    /\ pass.ok
    /\ pass.depth[Len(seq)] # Unreached
    /\ ShadowPass(seq, -pass.low[1]).ok

Pure(seq) == \A i \in DOMAIN seq : seq[i].op \notin Impure

\* What the depth pass of an accepted sequence says of it.
ContractOf(pass, end) ==
  [pop_d |-> -pass.low[1], push_d |-> end[1] - pass.low[1],
   pop_r |-> -pass.low[2], push_r |-> end[2] - pass.low[2],
   max_d |-> pass.high[1], max_r  |-> pass.high[2]]

\* The contract of a sequence that is accepted.
Contract(seq) ==
  LET pass == DepthPass(seq) IN ContractOf(pass, pass.depth[Len(seq)])

\* Every cell the sequence leaves is a literal, and there are fewer of them
\* than instructions.
Foldable(seq) ==
  /\ Pure(seq) /\ Contract(seq).pop_d = 0
  /\ \E shadow \in {ShadowPass(seq, 0).stack} :
       /\ \A k \in DOMAIN shadow : shadow[k] # Unknown
       /\ Len(shadow) < Len(seq)

Pushes(shadow) == [k \in DOMAIN shadow |-> [op |-> "Push", data |-> shadow[k][1]]]

\* The sequence that is compiled in place of an accepted one.
Folded(seq) ==
  IF Foldable(seq) THEN Pushes(ShadowPass(seq, 0).stack) ELSE seq

-----------------------------------------------------------------------------
(***************************************************************************)
(* build_safe_segments: a piece of a trace is cut before an instruction    *)
(* that takes more than the piece has left, before a jump far out of it,   *)
(* and around an instruction without a contract; the pieces the validation *)
(* does not accept are dropped.                                            *)
(***************************************************************************)
FarAway == 32

Kept(piece) == IF piece # <<>> /\ Accepted(piece) THEN <<piece>> ELSE <<>>

Gain(ins) == DataEffect[ins.op].push - DataEffect[ins.op].pop

CutBefore(ins, cutting) ==
  \/ cutting.depth < DataEffect[ins.op].pop
  \/ /\ ins.op \in {"Jump", "JZ"}
     /\ Len(cutting.piece) + 1 + ins.data \notin 0 .. (Len(cutting.piece) + FarAway - 1)

\* Mutant of CutOne: an instruction without a contract is left out and the
\* piece goes on.
CutOneJoins(cutting, ins) ==
  LET known == ins.op \in Contracted
      cut   == known /\ CutBefore(ins, cutting)
  IN  [segments |-> IF cut THEN cutting.segments \o Kept(cutting.piece) ELSE cutting.segments,
       piece    |-> IF known THEN Append(IF cut THEN <<>> ELSE cutting.piece, ins)
                             ELSE cutting.piece,
       depth    |-> IF known THEN (IF cut THEN 0 ELSE cutting.depth) + Gain(ins)
                             ELSE cutting.depth]

CutOne(cutting, ins) ==
  LET known == ins.op \in Contracted
      cut   == known => CutBefore(ins, cutting)
  IN  [segments |-> IF cut THEN cutting.segments \o Kept(cutting.piece) ELSE cutting.segments,
       piece    |-> IF known THEN Append(IF cut THEN <<>> ELSE cutting.piece, ins) ELSE <<>>,
       depth    |-> IF known THEN (IF cut THEN 0 ELSE cutting.depth) + Gain(ins) ELSE 0]

SafeSegments(seq) ==
  LET last == FoldLeft(CutOne, [segments |-> <<>>, piece |-> <<>>, depth |-> 0], seq)
  IN  last.segments \o Kept(last.piece)

=============================================================================
