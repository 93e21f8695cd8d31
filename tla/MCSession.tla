------------------------------ MODULE MCSession ------------------------------
(***************************************************************************)
(* An instance of Compiler for TLC in which a session either only types    *)
(* text in, or runs what it has compiled between any two words.            *)
(***************************************************************************)
EXTENDS MCCompiler

CONSTANTS
  LiveCode,    \* bound of the code that a session with runs types in
  LiveControl, \* bound of the control stack of such a session
  DryWords,    \* bound of the dictionary of a session that only types
  DryFloats    \* bound of the code that it types floats into

VARIABLE live  \* does this session run what it compiles?

\* The words of a session with runs: all but the structures, of which it has
\* one that goes forward and one edge that goes back.
LiveText ==
  \/ Semicolon \/ SemicolonUnbalanced
  \/ If \/ Then \/ CompilePLoop \/ Unstructured \/ NotCompiling
  \/ NameStep \/ Literal \/ CompileNumber \/ InterpretLiteral

LiveStep ==
  \/ LiveText /\ Len(code') <= LiveCode /\ Len(control_stack') <= LiveControl
  \/ RunStep

\* A session is dry from its beginning, or runs things at any moment.
SessionInit == CInit /\ live \in BOOLEAN

SessionNext ==
  /\ \/ ~live /\ DryStep /\ Len(dict') <= DryWords
     \/ ~live /\ (CompileFloat \/ InterpretFloat) /\ Len(code') <= DryFloats
     \/ live /\ LiveStep
  /\ UNCHANGED live

SessionSpec == SessionInit /\ [][SessionNext]_<<cvars, live>>

=============================================================================
