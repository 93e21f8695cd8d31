----------------------------- MODULE MCContract -----------------------------
(***************************************************************************)
(* Sequences with a contract for ContractRun.                              *)
(***************************************************************************)
EXTENDS ContractRun

Ins(op, d) == [op |-> op, data |-> d]

Moves == {Ins("Push", 1), Ins("Dup", 0), Ins("Drop", 0), Ins("Swap", 0),
          Ins("Nip", 0), Ins("Tuck", 0), Ins("Rot", 0), Ins("Dup2", 0),
          Ins("Add", 0), Ins("ToR", 0), Ins("FromR", 0), Ins("Do", 0),
          Ins("I", 0), Ins("Over", 0), Ins("Depth", 0)}

Numbers == {Ins("Push", 0), Ins("Push", 1), Ins("Dup", 0), Ins("Drop", 0),
            Ins("Swap", 0), Ins("Add", 0)}

Branches == {Ins("Push", 0), Ins("Dup", 0), Ins("Drop", 0), Ins("JZ", 1),
             Ins("JZ", 2), Ins("JZ", -2), Ins("Jump", 1)}

\* A cell pushed by hand is 1, so both branches of JZ are taken.
Sequences == [1 .. 3 -> Moves] \cup [1 .. 4 -> Numbers] \cup [1 .. 5 -> Branches]

\* The sequences that are accepted, and for their pieces all the others.
ContractPrograms == { [code |-> seq, dict |-> <<>>] : seq \in Sequences }

=============================================================================
