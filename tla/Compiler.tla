------------------------------- MODULE Compiler -------------------------------
(***************************************************************************)
(* The text interpreter of kaiforth, Vm::interpret_loop, with its compiler *)
(* and the dictionary it looks words up in, on top of the interpreter of   *)
(* module Vm.                                                              *)
(*                                                                         *)
(* The text is not kept: whenever the interpreter would ask the parser for *)
(* a token it may be given any.  One action is one round of the loop, the  *)
(* name that a word such as `:` reads after itself included; a word that   *)
(* finds something else there passes it over.  A round that returns an     *)
(* error leaves it in result, and everything it did before the error       *)
(* stays.                                                                  *)
(***************************************************************************)
EXTENDS Vm

CONSTANTS
  Names,            \* the names a text may use, those of the core included
  CoreNames,        \* [name -> index of the entry], as register_core left it
  COMPILE_COMMA,    \* the name "compile,"
  CompilerWords,    \* the compiler words the text may use
  MaxWords,         \* bound of the dictionary
  MaxControl        \* bound of the control stack

VARIABLES
  compiling,        \* sys.compiling
  control_stack,    \* sys.control_stack: addresses of instructions
  words,            \* the word list: name -> index of its newest entry
  hidden,           \* the entries whose is_hidden is set
  latest_word       \* sys.dict.latest_word, or -1

text  == <<compiling, control_stack, words, hidden, latest_word>>
cvars == <<vars, text>>

ASSUME NamesAssumption ==
  /\ COMPILE_COMMA \in Names
  /\ CoreNames \in [DOMAIN CoreNames -> Nat] /\ DOMAIN CoreNames \subseteq Names
  /\ \A n \in DOMAIN CoreNames, p \in Programs : CoreNames[n] < Len(p.dict)
  /\ \A p \in Programs :
       p.code = <<>> /\ \A i \in DOMAIN p.dict : p.dict[i].kind = "prim"
  /\ MaxWords \in Nat /\ MaxControl \in Nat

-----------------------------------------------------------------------------
Idle(word) == at = "idle" /\ word \in CompilerWords

\* The round ends with the value of status; nothing is run.
Answer(status) ==
  /\ result' = [status |-> status, code |-> 0]
  /\ UNCHANGED <<at, instr, ip, caller, mem, here, frames>>

Room == Len(code) < MaxCode

RoomToOpen == Len(control_stack) < MaxControl

\* sys.code.push
Ins(op, value)  == [op |-> op, data |-> value]
Emit(op, value) == code' = Append(code, Ins(op, value))

\* Address a, counted from 0, holds value: sys.code.patch_data.
Patched(c, a, value) ==
  IF a < Len(c) THEN [c EXCEPT ![a + 1].data = value] ELSE c

\* What an instruction at address a adds to ip to continue at target.
Delta(a, target) == target - a - 1

Popped(n) == SubSeq(control_stack, 1, Len(control_stack) - n)

\* The n-th address from the top of the control stack.
Control(n) == control_stack[Len(control_stack) - n + 1]

-----------------------------------------------------------------------------
(***************************************************************************)
(* Definitions.                                                            *)
(***************************************************************************)
\* name comes to mean entry i, the newest: the tail of Dictionary::insert.
Named(name, i) ==
  /\ words' = [n \in DOMAIN words \cup {name} |-> IF n = name THEN i ELSE words[n]]
  /\ latest_word' = i

Word(address) == [kind |-> "word", op |-> "Stop", addr |-> address]

\* Mutant of Colon: the word starts at the instruction after its first.
ColonTooFar(name) ==
  /\ Idle(":")
  /\ Len(dict) < MaxWords
  /\ compiling' = TRUE
  /\ dict' = Append(dict, Word(Len(code) + 1))
  /\ Named(name, Len(dict))
  /\ hidden' = hidden \cup {Len(dict)}
  /\ Answer("Done")
  /\ UNCHANGED <<code, data, control_stack>>

\* Mutant of Colon: the index is the length after the entry is in.
ColonIndexLate(name) ==
  /\ Idle(":")
  /\ Len(dict) < MaxWords
  /\ compiling' = TRUE
  /\ dict' = Append(dict, Word(Len(code)))
  /\ Named(name, Len(dict'))
  /\ hidden' = hidden \cup {Len(dict')}
  /\ Answer("Done")
  /\ UNCHANGED <<code, data, control_stack>>

\* The name is entered at once, and marked hidden.
Colon(name) ==
  /\ Idle(":")
  /\ Len(dict) < MaxWords
  /\ compiling' = TRUE
  /\ dict' = Append(dict, Word(Len(code)))
  /\ Named(name, Len(dict))
  /\ hidden' = hidden \cup {Len(dict)}
  /\ Answer("Done")
  /\ UNCHANGED <<code, data, control_stack>>

\* Mutant of Semicolon: the control stack is not looked at.
SemicolonUnchecked ==
  /\ Idle(";")
  /\ Room
  /\ Emit("Ret", 0)
  /\ hidden' = hidden \ {latest_word}
  /\ compiling' = FALSE
  /\ Answer("Done")
  /\ UNCHANGED <<dict, data, control_stack, words, latest_word>>

\* `;` ends a definition whether one was begun or not.
Semicolon ==
  /\ Idle(";")
  /\ control_stack = <<>>
  /\ Room
  /\ Emit("Ret", 0)
  /\ hidden' = hidden \ {latest_word}
  /\ compiling' = FALSE
  /\ Answer("Done")
  /\ UNCHANGED <<dict, data, control_stack, words, latest_word>>

\* The definition stays open, and so does whatever is on the control stack.
SemicolonUnbalanced ==
  /\ Idle(";")
  /\ control_stack # <<>>
  /\ Answer("Err")
  /\ UNCHANGED <<code, dict, data, text>>

(***************************************************************************)
(* Control structure.  All of it shares one stack of addresses, and no     *)
(* word looks at what the address it pops was pushed for.                  *)
(***************************************************************************)
StructureWords == {"if", "then", "else", "begin", "until", "while", "repeat",
                   "do", "loop", "+loop"}

\* What each of them pops.
Needs(word) == CASE word \in {"if", "begin", "do"} -> 0
                 [] word = "repeat"                -> 2
                 [] OTHER                          -> 1

Compiling(word) ==
  /\ Idle(word)
  /\ compiling
  /\ Len(control_stack) >= Needs(word)

\* A round of the compiler that changes the code and the control stack.
Compiled(new_code, new_control) ==
  /\ code' = new_code
  /\ control_stack' = new_control
  /\ Answer("Done")
  /\ UNCHANGED <<dict, data, compiling, words, hidden, latest_word>>

\* Mutant of If: it may be used outside a definition.
IfAnywhere ==
  /\ Idle("if") /\ Room /\ RoomToOpen
  /\ Compiled(Append(code, Ins("JZ", 0)), Append(control_stack, Len(code)))

If ==
  /\ Compiling("if") /\ Room /\ RoomToOpen
  /\ Compiled(Append(code, Ins("JZ", 0)), Append(control_stack, Len(code)))

\* Mutant of Then: the length of the jump itself is forgotten.
ThenTooFar ==
  /\ Compiling("then")
  /\ Compiled(Patched(code, Control(1), Len(code) - Control(1)), Popped(1))

Then ==
  /\ Compiling("then")
  /\ Compiled(Patched(code, Control(1), Delta(Control(1), Len(code))), Popped(1))

Else ==
  /\ Compiling("else") /\ Room
  /\ Compiled(Patched(Append(code, Ins("Jump", 0)), Control(1),
                      Delta(Control(1), Len(code) + 1)),
              Append(Popped(1), Len(code)))

Begin ==
  /\ Compiling("begin") /\ RoomToOpen
  /\ Compiled(code, Append(control_stack, Len(code)))

Until ==
  /\ Compiling("until") /\ Room
  /\ Compiled(Append(code, Ins("JZ", Delta(Len(code), Control(1)))), Popped(1))

While ==
  /\ Compiling("while") /\ Room /\ RoomToOpen
  /\ Compiled(Append(code, Ins("JZ", 0)), Append(control_stack, Len(code)))

Repeat ==
  /\ Compiling("repeat") /\ Room
  /\ Compiled(Patched(Append(code, Ins("Jump", Delta(Len(code), Control(2)))),
                      Control(1), Delta(Control(1), Len(code) + 1)),
              Popped(2))

CompileDo ==
  /\ Compiling("do") /\ Room /\ RoomToOpen
  /\ Compiled(Append(code, Ins("Do", 0)), Append(control_stack, Len(code)))

\* The edge goes back to the Do, not to the instruction after it.
CompileLoop ==
  /\ Compiling("loop") /\ Room
  /\ Compiled(Append(code, Ins("Loop", Delta(Len(code), Control(1)))), Popped(1))

CompilePLoop ==
  /\ Compiling("+loop") /\ Room
  /\ Compiled(Append(code, Ins("PLoop", Delta(Len(code), Control(1)))), Popped(1))

\* Too few addresses: `while` has compiled its jump by then, and `repeat`
\* has popped the address that was there.
Unstructured ==
  /\ \E word \in StructureWords :
       /\ Idle(word)
       /\ compiling
       /\ Len(control_stack) < Needs(word)
       /\ word = "while" => Room
       /\ code' = IF word = "while" THEN Append(code, Ins("JZ", 0)) ELSE code
  /\ control_stack' = <<>>
  /\ Answer("Err")
  /\ UNCHANGED <<dict, data, compiling, words, hidden, latest_word>>

NotCompiling ==
  /\ \E word \in StructureWords \cup {"postpone", "literal"} : Idle(word)
  /\ ~compiling
  /\ Answer("Err")
  /\ UNCHANGED <<code, dict, data, text>>

(***************************************************************************)
(* Words that take a name, and literals.                                   *)
(***************************************************************************)
Known(name) == name \in DOMAIN words

\* No word is immediate.  Without `compile,` the literal has been compiled
\* when the error comes.
Postpone(name) ==
  /\ Idle("postpone")
  /\ compiling
  /\ Known(name)
  /\ Len(code) + 1 < MaxCode
  /\ LET literal == Append(code, Ins("Push", words[name]))
     IN  IF Known(COMPILE_COMMA)
         THEN /\ code' = Append(literal, Ins("Call", words[COMPILE_COMMA]))
              /\ Answer("Done")
         ELSE /\ code' = literal
              /\ Answer("Err")
  /\ UNCHANGED <<dict, data, text>>

\* A name that is not found is passed over.
PostponeUnknown(name) ==
  /\ Idle("postpone")
  /\ compiling
  /\ ~Known(name)
  /\ Answer("Done")
  /\ UNCHANGED <<code, dict, data, text>>

\* ['] compiles the index of a word; ' pushes it, even while compiling.
BracketTick(name) ==
  /\ Idle("[']")
  /\ compiling
  /\ Known(name)
  /\ Room
  /\ Emit("Push", words[name])
  /\ Answer("Done")
  /\ UNCHANGED <<dict, data, text>>

Tick(name) ==
  /\ Idle("'") \/ (Idle("[']") /\ ~compiling)
  /\ Known(name)
  /\ TextPush(Wrap(words[name]))
  /\ UNCHANGED <<at, instr, store, frames, ip, caller, text>>

TickUnknown(name) ==
  /\ Idle("'") \/ Idle("[']")
  /\ ~Known(name)
  /\ Answer("Err")
  /\ UNCHANGED <<code, dict, data, text>>

\* The value is popped while compiling, and pushed when the word runs.
Literal ==
  /\ Idle("literal")
  /\ compiling
  /\ IF d_depth = 0
     THEN /\ Answer("Err")
          /\ UNCHANGED <<code, d_depth>>
     ELSE /\ Room
          /\ Emit("Push", Arg(1))
          /\ d_depth' = d_depth - 1
          /\ Answer("Done")
  /\ UNCHANGED <<dict, d_stack, text>>

CompileNumber ==
  /\ at = "idle"
  /\ compiling
  /\ Room
  /\ \E v \in Literals : Emit("Push", v)
  /\ Answer("Done")
  /\ UNCHANGED <<dict, data, text>>

InterpretLiteral ==
  /\ ~compiling
  /\ InterpretNumber
  /\ UNCHANGED text

\* "1.5" stands for every float: Vm keeps no value of one.
CompileFloat ==
  /\ Idle("1.5")
  /\ compiling
  /\ Room
  /\ Emit("PushF", 0)
  /\ Answer("Done")
  /\ UNCHANGED <<dict, data, text>>

InterpretFloat ==
  /\ Idle("1.5")
  /\ ~compiling
  /\ f_depth' = Least(f_depth + 1, FLimit)
  /\ result' = [status |-> IF f_depth < FLimit THEN "Done" ELSE "Err", code |-> 0]
  /\ UNCHANGED <<at, instr, store, data, r_stack, c_stack, loop_stack,
                 exception_stack, ip, caller, text>>

(***************************************************************************)
(* Other names.  lookup does not look at the hidden mark.                  *)
(***************************************************************************)
CompileName(name) ==
  /\ at = "idle"
  /\ compiling
  /\ Known(name)
  /\ Room
  /\ LET entry == dict[words[name] + 1]
     IN  IF entry.kind = "prim" THEN Emit(entry.op, 0)
                                ELSE Emit("Call", words[name])
  /\ Answer("Done")
  /\ UNCHANGED <<dict, data, text>>

InterpretName(name) ==
  /\ ~compiling
  /\ Known(name)
  /\ InterpretXt(words[name])
  /\ UNCHANGED text

UnknownName(name) ==
  /\ at = "idle"
  /\ ~Known(name)
  /\ Answer("Err")
  /\ UNCHANGED <<code, dict, data, text>>

-----------------------------------------------------------------------------
CInit ==
  /\ Init
  /\ compiling = FALSE
  /\ control_stack = <<>>
  /\ words = CoreNames
  /\ hidden = {}
  /\ latest_word = Len(dict) - 1

StructureStep ==
  \/ If \/ Then \/ Else \/ Begin \/ Until \/ While \/ Repeat
  \/ CompileDo \/ CompileLoop \/ CompilePLoop \/ Unstructured \/ NotCompiling

NameStep ==
  \E name \in Names :
    \/ Colon(name) \/ Postpone(name) \/ PostponeUnknown(name)
    \/ BracketTick(name) \/ Tick(name) \/ TickUnknown(name)
    \/ CompileName(name) \/ InterpretName(name) \/ UnknownName(name)

TextStep ==
  \/ Semicolon \/ SemicolonUnbalanced \/ StructureStep \/ NameStep
  \/ Literal \/ CompileNumber \/ InterpretLiteral
  \/ CompileFloat \/ InterpretFloat

\* run_loop may be started in the middle of a definition: main does so
\* whenever a line ends there.
RunStep == (VmStep \/ StartRun \/ Crashed) /\ UNCHANGED text

CNext == TextStep \/ RunStep

CSpec == CInit /\ [][CNext]_cvars

-----------------------------------------------------------------------------
(***************************************************************************)
(* Properties.                                                             *)
(***************************************************************************)
TextTypeOK ==
  /\ compiling \in BOOLEAN
  /\ control_stack \in Seq(Nat)
  /\ words \in [DOMAIN words -> Nat] /\ DOMAIN words \subseteq Names
  /\ \A n \in DOMAIN words : words[n] < Len(dict)
  /\ hidden \subseteq 0 .. (Len(dict) - 1)
  /\ latest_word \in -1 .. (Len(dict) - 1)

Branches == {"JZ", "Jump", "Loop", "PLoop"}

BranchTarget(a) == a + 1 + code[a + 1].data

HasOp(a, ops) == a \in 0 .. (Len(code) - 1) /\ code[a + 1].op \in ops

\* Whatever control words a text strings together, no branch it compiles
\* leaves its definition: a Ret is never between a branch and its target,
\* and no target is past the end of the code.
BranchesStayInside ==
  \A a \in 0 .. (Len(code) - 1) : HasOp(a, Branches) =>
    /\ BranchTarget(a) \in 0 .. Len(code)
    /\ \A r \in 0 .. (Len(code) - 1) : HasOp(r, {"Ret"}) =>
         /\ r < a => r < BranchTarget(a)
         /\ a < r => BranchTarget(a) <= r

\* While the text interpreter interprets, no control structure is open:
\* addresses never survive the end of the definition they belong to,
\* whatever errors happened on the way.
NothingLeftOpen == ~compiling => control_stack = <<>>

\* A definition that `;` has ended is never changed again, although errors
\* leave addresses on the control stack and later words patch through them.
FinishedCodeStays ==
  [][\A r \in 0 .. (Len(code) - 1) : HasOp(r, {"Ret"}) =>
       \A a \in 0 .. r : code'[a + 1] = code[a + 1]]_cvars

\* A word that is not hidden comes to a Ret: nested, unfinished and
\* redefined definitions never make a word visible that `;` has not ended.
VisibleWordsEnd ==
  \A i \in 0 .. (Len(dict) - 1) :
    dict[i + 1].kind = "word" /\ i \notin hidden =>
      \E r \in 0 .. (Len(code) - 1) : HasOp(r, {"Ret"}) /\ dict[i + 1].addr <= r

(***************************************************************************)
(* Claims of the documents that the code does not keep.                    *)
(***************************************************************************)
\* README.md:98: standard loops.  The code a loop edge repeats has one edge
\* more than it has Do instructions: the loop's own Do is not repeated.
LoopsRepeatTheirBody ==
  \A a \in 0 .. (Len(code) - 1) : HasOp(a, {"Loop", "PLoop"}) =>
    LET body == SubSeq(code, BranchTarget(a) + 1, a + 1)
    IN  Len(SelectSeq(body, LAMBDA i : i.op = "Do"))
          < Len(SelectSeq(body, LAMBDA i : i.op \in {"Loop", "PLoop"}))

=============================================================================
