------------------------------ MODULE Learning ------------------------------
(***************************************************************************)
(* The optimizer and the code that is run: a caller hands over traces, and *)
(* a history variable counts how often each watched sequence was in them,  *)
(* over crashes and snapshots too.                                         *)
(***************************************************************************)
EXTENDS Optimizer

CONSTANT Watched  \* the sequences that are counted

VARIABLE seen  \* history: how often each was in a trace

lvars == <<ovars, seen>>

-----------------------------------------------------------------------------
\* A sequence stands in a trace, its first instruction at i.
IsPlace(trace, i, ops) ==
  \A k \in DOMAIN ops :
    /\ i + k - 1 \in DOMAIN trace
    /\ trace[i + k - 1].kind = "Op"
    /\ trace[i + k - 1].ins = ops[k]

Places(trace, ops) == Cardinality({ i \in DOMAIN trace : IsPlace(trace, i, ops) })

LInit == OInit /\ seen = [ops \in Watched |-> 0]

\* ObserveTrace, counted.
Show ==
  \E trace \in Traces :
    /\ seen' = [ops \in Watched |-> seen[ops] + Places(trace, ops)]
    /\ Observe(trace)
    /\ UNCHANGED <<eval_count, next_opt_threshold, is_frozen, disk>>

Strike == \E ctx \in super_instructions : Penalize(ctx)

LNext == Show \/ ((Strike \/ ShouldRun \/ Drain \/ Freeze \/ KeepStep) /\ UNCHANGED seen)

LSpec == LInit /\ [][LNext]_lvars

\* A pattern is promoted only if it was run as often as the threshold asks,
\* by any number of processes: no piece of a trace is counted twice, no
\* failure and no decay of a negative score makes up for a run.
PromotionIsEarned ==
  \A ctx \in super_instructions :
    ctx.original_ops \in Watched => seen[ctx.original_ops] >= ScoreThreshold

=============================================================================
