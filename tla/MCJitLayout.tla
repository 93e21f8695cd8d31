----------------------------- MODULE MCJitLayout -----------------------------
(***************************************************************************)
(* An instance of JitLayout for TLC.                                       *)
(***************************************************************************)
EXTENDS JitLayout

Instr(op, data) == [op |-> op, data |-> data]

Plain == {Instr(op, 0) : op \in JitOps \ Branches}

Branching == {Instr(op, d) : op \in Branches, d \in -2 .. 1}

\* Every instruction next to every branch, and one that has no template.
SmallBlocks ==
  {<<i, j>> : i \in Plain, j \in Plain \cup Branching}
    \cup {<<j, i>> : i \in Plain, j \in Branching}
    \cup {<<i, j>> : i \in Branching, j \in Branching}
    \cup {<<Instr("Dup", 0), Instr("Call", 0)>>}
    \cup {<<i, j, i>> : i \in {Instr("Dup", 0)}, j \in Branching}
    \cup {<<Instr("Do", 0), Instr("I", 0), Instr("Drop", 0), Instr("Loop", -3)>>}
    \cup {[k \in 1 .. 5 |-> Instr("Dup", 0)]}

=============================================================================
