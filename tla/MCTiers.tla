------------------------------ MODULE MCTiers ------------------------------
(***************************************************************************)
(* An instance of Tiers for TLC: a main program that calls one small word  *)
(* several times, as the tests do, and a host that runs both in any order. *)
(***************************************************************************)
EXTENDS Tiers

CONSTANT MaxRuns  \* bound: how often the host starts something

VARIABLE runs  \* how often it has

Ins(op, d) == [op |-> op, data |-> d]

Main == { <<Ins("Push", 1), Ins("Call", 0), Ins("Call", 0)>>,
          <<Ins("Catch", 0), Ins("Push", 0), Ins("Execute", 0), Ins("Call", 0)>> }

\* Words that are folded, compiled in one piece and in three, refused by the
\* emitter, too long; that find no room, that throw, that branch, and that
\* hold an instruction without a contract.
Bodies ==
  { <<Ins("Push", 1), Ins("Dup", 0), Ins("Add", 0)>>,
    <<Ins("Inc", 0), Ins("Dup", 0)>>,
    <<Ins("Inc", 0), Ins("Drop", 0), Ins("Push", 1)>>,
    <<Ins("Push", 1), Ins("Square", 0)>>,
    <<Ins("Push", 1), Ins("Inc", 0), Ins("Inc", 0)>>,
    <<Ins("Push", 1), Ins("Throw", 0)>>,
    <<Ins("I", 0)>>,
    <<Ins("Push", 0), Ins("JZ", 1), Ins("Inc", 0)>>,
    <<Ins("Push", 1), Ins("Depth", 0), Ins("Inc", 0), Ins("Dup", 0)>> }

TierPrograms ==
  { [code |-> main \o <<Ins("Stop", 0)>> \o body \o <<Ins("Ret", 0)>>,
     dict |-> << [kind |-> "word", op |-> "Stop", addr |-> Len(main) + 1] >>] :
      main \in Main, body \in Bodies }

MCInit == TInit /\ runs = 0

MCNext ==
  \/ (Host \/ ObserveBetween) /\ runs < MaxRuns /\ runs' = runs + 1
  \/ (Interpret \/ DispatchStep \/ TimePasses) /\ UNCHANGED runs
  \/ at = "idle" /\ runs = MaxRuns /\ UNCHANGED <<tvars, runs>>

MCSpec == MCInit /\ [][MCNext]_<<tvars, runs>> /\ TFairness

=============================================================================
