---------------------------- MODULE MCOptimizer ----------------------------
(***************************************************************************)
(* An instance of Learning for TLC: a caller that hands over short traces. *)
(***************************************************************************)
EXTENDS Learning

CONSTANT MaxSeen  \* bound: how often a sequence is shown

Op(ip, op) == [kind |-> "Op", ip |-> ip, ins |-> [op |-> op, data |-> 0]]
Enter(word) == [kind |-> "EnterWord", word |-> word]
Exit == [kind |-> "ExitWord"]

\* A word called after a loose instruction; the same instruction around one
\* that has no contract; a single event, which is no trace; and a long trace
\* with nothing to learn.
Short ==
  { <<Op(0, "Drop"), Op(1, "Call"), Enter(0), Op(4, "Dup"), Op(5, "Inc"), Op(6, "Ret"), Exit>>,
    <<Op(0, "Drop"), Op(1, "Depth"), Op(2, "Drop")>>,
    <<Op(0, "Drop")>>,
    [i \in 1 .. DecayEvents + 1 |-> Op(i, "Depth")] }

\* The sequences that become patterns.
Segments == { <<[op |-> "Drop", data |-> 0]>>,
              <<[op |-> "Dup", data |-> 0], [op |-> "Inc", data |-> 0]>> }

MCStrike ==
  \E ctx \in super_instructions :
    StatsOf(patterns, ctx).failures <= MaxStrikes /\ Penalize(ctx)

MCNext ==
  \/ Show /\ \A ops \in Watched : seen'[ops] <= MaxSeen
  \/ (MCStrike \/ ShouldRun \/ Drain \/ Freeze \/ KeepStep) /\ UNCHANGED seen

MCSpec == LInit /\ [][MCNext]_lvars

=============================================================================
