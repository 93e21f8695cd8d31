------------------------------ MODULE MCCompiler ------------------------------
(***************************************************************************)
(* Instances of Compiler for TLC.                                          *)
(***************************************************************************)
EXTENDS Compiler

Prim(op) == [kind |-> "prim", op |-> op, addr |-> 0]

\* A dictionary of one primitive word.
SmallPrograms == { [code |-> <<>>, dict |-> <<Prim("CompileComma")>>] }
SmallNames    == "compile," :> 0

\* What a text alone does, with one core word that it may define again.
DryStep ==
  \/ Semicolon \/ SemicolonUnbalanced
  \/ If \/ Then \/ Else \/ Begin \/ Until \/ While \/ Repeat
  \/ CompileDo \/ CompileLoop \/ Unstructured \/ NotCompiling
  \/ \E name \in DOMAIN CoreNames : Colon(name)

DrySpec == CInit /\ [][DryStep]_cvars

=============================================================================
