---------------------------- MODULE ContractRun ----------------------------
(***************************************************************************)
(* The contracts of sequences against the runs of the interpreter: code is *)
(* one sequence, run once from its start on a stack of some depth, as      *)
(* run_loop runs the trace it would replace.                               *)
(***************************************************************************)
EXTENDS Vm, Contract

VARIABLE base  \* d_depth when the run started, -1 before

\* The ops whose contract is not what execute_op does: Over leaves three
\* cells, PushF none, PLoop takes one, RFetch leaves the return stack as it
\* is, a loop may go round again, and Stop ends the run.
Mistaken == {"Over", "PushF", "RFetch", "PLoop", "Loop", "Stop"}

Trusted == Accepted(code) /\ \A i \in DOMAIN code : code[i].op \notin Mistaken

RunInit == Init /\ base = -1

\* The cells of the stack are there before an accepted sequence runs.
Before ==
  /\ base = -1
  /\ Trusted
  /\ \/ InterpretNumber /\ UNCHANGED base
     \/ StartRun /\ base' = d_depth

RunNext == Before \/ (VmStep /\ UNCHANGED base)

RunSpec == RunInit /\ [][RunNext]_<<vars, base>>

\* The run has what its contract says it takes.
Supplied == base >= Contract(code).pop_d

Leaving == at = "step" /\ base # -1 /\ ip = Len(code)

\* optimizer.md:13 for the contracts that are right: a run that gets to the
\* end of an accepted sequence, by whatever branches, has changed the depth
\* of the stacks by what the contract says.
EffectAsContracted ==
  Leaving /\ Supplied =>
    LET c == Contract(code)
    IN  /\ d_depth = base - c.pop_d + c.push_d
        /\ Len(r_stack) + Len(loop_stack) = c.push_r - c.pop_r

\* On the way no instruction underflows, and the depth stays between the
\* bounds the contract gives.
RoomAsContracted ==
  base # -1 /\ Supplied =>
    /\ d_depth \in (base - Contract(code).pop_d) .. (base + Contract(code).max_d)
    /\ at = "exec" => d_depth >= Arity(instr.op)

\* The literals a sequence is folded into are the cells its run leaves.
FoldAgrees ==
  Leaving /\ Foldable(code) =>
    \A folded \in {Folded(code)} :
      /\ d_depth = base + Len(folded)
      /\ \A k \in DOMAIN folded : d_stack[base + k] = Wrap(folded[k].data)

\* The pieces of a trace are parts of it, one behind the other, and of a
\* piece without branches only the first instruction takes cells the piece
\* did not make.
PiecesAreApart ==
  base = -1 =>
    \A pieces \in {SafeSegments(code)} :
      /\ \E start \in [DOMAIN pieces -> DOMAIN code] :
           \A k \in DOMAIN pieces :
             /\ k > 1 => start[k] >= start[k - 1] + Len(pieces[k - 1])
             /\ start[k] + Len(pieces[k]) - 1 <= Len(code)
             /\ pieces[k] = SubSeq(code, start[k], start[k] + Len(pieces[k]) - 1)
      /\ \A k \in DOMAIN pieces :
           (\A i \in DOMAIN pieces[k] : pieces[k][i].op \notin {"Jump", "JZ"})
             => Contract(pieces[k]).pop_d <= DataEffect[Head(pieces[k]).op].pop

=============================================================================
