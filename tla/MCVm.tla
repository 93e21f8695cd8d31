-------------------------------- MODULE MCVm --------------------------------
(***************************************************************************)
(* Instances of Vm for TLC: one set of programs for each question.         *)
(***************************************************************************)
EXTENDS Vm

Prim(op) == [kind |-> "prim", op |-> op, addr |-> 0]
Word(a)  == [kind |-> "word", op |-> "Stop", addr |-> a]
Ins(op, d) == [op |-> op, data |-> d]
Op(op) == Ins(op, 0)

\* Words that move cells, and the code a run executes between them: it moves
\* cells to the return stack and back, and throws.
StackDict ==
  <<Prim("Dup"), Prim("Drop"), Prim("Swap"), Prim("Over"), Prim("Rot"),
    Prim("Nip"), Prim("Tuck"), Prim("Drop2"), Prim("Dup2"), Prim("Pick"),
    Prim("Roll"), Prim("Catch"), Prim("Dot")>>

StackPrograms ==
  { [code |-> <<Op("ToR"), Op("RFetch"), Op("FromR"), Op("Noop"),
                Op("PushF"), Ins("Push", 1), Op("Throw")>>,
     dict |-> StackDict] }

\* Words that compute.
ArithmeticDict ==
  <<Prim("Add"), Prim("Sub"), Prim("Mul"), Prim("Mod"), Prim("DivMod"),
    Prim("Div"), Prim("Inc"), Prim("Dec"), Prim("Square"), Prim("IsZero"),
    Prim("Negate"), Prim("Invert"), Prim("And"), Prim("Or"), Prim("Xor"),
    Prim("LShift"), Prim("RShift"), Prim("Max"), Prim("Min"), Prim("Eq"),
    Prim("Lt"), Prim("Gt"), Prim("Abs"), Prim("Depth"), Prim("BL"),
    Prim("Here"), Prim("Emit"), Prim("Cr")>>

ArithmeticPrograms == { [code |-> <<>>, dict |-> ArithmeticDict] }

\* Three pieces of code one after the other, each ended by the Ret that `;`
\* compiles: a main program, and two words it may call or execute.  Word 0
\* may call or execute word 1; there is no other nesting, and every jump
\* goes forward.
Main == {Ins("Push", 0), Ins("Push", 1), Ins("Call", 0), Op("Execute"),
         Op("Catch"), Op("Throw"), Ins("JZ", 1), Op("Yield")}

AfterCatch == {Ins("Call", 0), Op("Execute"), Op("Throw")}

Body0 == { <<Ins("Call", 1)>>, <<Ins("Push", 1), Op("Execute")>>,
           <<Op("Catch"), Ins("Call", 1)>> }

Body1 == { <<>>, <<Op("Catch")>>, <<Ins("Push", 1), Op("Throw")>> }

Layout(main, body0, body1) ==
  LET ret   == <<Op("Ret")>>
      word0 == Len(main) + 1
      word1 == word0 + Len(body0) + 1
  IN  [code |-> main \o ret \o body0 \o ret \o body1 \o ret,
       dict |-> <<Word(word0), Word(word1)>>]

ControlPrograms ==
  { Layout(main, body0, body1) :
      main \in [1 .. 2 -> Main] \cup { <<Op("Catch")>> \o t : t \in [1 .. 2 -> AfterCatch] },
      body0 \in Body0, body1 \in Body1 }

\* The text interpreter is used only while nothing is left of earlier errors:
\* a failed run leaves its frames behind, and without this bound they pile
\* up until memory is gone.
QuietHostStep ==
  \/ StartRun
  \/ /\ InterpretNumber \/ InterpretWord
     /\ c_stack = <<>> /\ exception_stack = <<>> /\ loop_stack = <<>>

QuietSpec == Init /\ [][VmStep \/ QuietHostStep \/ Crashed]_vars /\ Fairness

\* A counted loop whose edge goes back to the first instruction of its body.
Counted(limit, index, body, edge) ==
  <<Ins("Push", limit), Ins("Push", index), Op("Do")>> \o body
    \o (IF edge = "Loop" THEN <<Ins("Loop", -(Len(body) + 1))>>
                         ELSE <<Ins("Push", IF edge = "Up" THEN 1 ELSE -1),
                                Ins("PLoop", -(Len(body) + 2))>>)

\* Loop bodies: one that keeps its index on the stack until there is no
\* room, one that throws it, one that holds a loop of its own.
LoopBody ==
  { <<>>, <<Op("I")>>, <<Op("I"), Op("Throw")>>,
    Counted(1, -1, <<Op("J"), Op("JZ"), Op("I"), Op("Drop")>>, "Loop") }

\* Counting down past the smallest number never ends.  The last program has
\* the edges of loops that were never entered.
LoopPrograms ==
  { [code |-> <<Op("Catch")>> \o Counted(l, i, body, edge) \o <<Op("Ret")>>,
     dict |-> <<Word(0), Prim("I"), Prim("J")>>] :
      l \in Val, i \in Val, body \in LoopBody, edge \in {"Loop", "Up"} }
  \cup
  { [code |-> Counted(l, i, <<>>, "Down"), dict |-> <<>>] :
      l \in Val \ {-Half}, i \in Val }
  \cup
  { [code |-> <<Op("Loop"), Ins("Push", 1), Op("PLoop"), Op("Ret")>>, dict |-> <<>>] }

\* Code that grows between the runs: calls compiled at its end, which a
\* later run falls into.
GrowingPrograms ==
  { [code |-> <<Ins("Jump", 1), Op("Throw"), Op("Catch"), Op("Ret")>>,
     dict |-> <<Word(3), Word(0), Prim("CompileComma"), Prim("Execute"),
                Prim("Throw")>>] }

ShortPrograms == ControlPrograms \cup LoopPrograms \cup GrowingPrograms

\* Words that write and reserve data space, and words that read it.
MemoryPrograms ==
  { [code |-> <<>>,
     dict |-> <<Prim("Store"), Prim("StoreC"), Prim("Comma"), Prim("Allot")>>],
    [code |-> <<>>,
     dict |-> <<Prim("Fetch"), Prim("FetchC"), Prim("Comma"), Prim("Here")>>] }

\* A call compiled of a number that is no word.
UncheckedPrograms == { [code |-> <<>>, dict |-> <<Prim("CompileComma")>>] }

WordPrograms == StackPrograms \cup ArithmeticPrograms \cup MemoryPrograms \cup UncheckedPrograms

\* What is typed.  Cells are moved with room for four of them; the words that
\* compute have two operands, and reach every other number from -1 and 1.
TypedLiterals == {-1, 0, 1, 2}

Typed ==
  \/ InterpretWord /\ (dict = StackDict \/ d_depth <= 2)
  \/ InterpretNumber /\ \/ dict = StackDict /\ (d_depth' > d_depth => Arg(1)' # -1)
                        \/ dict # StackDict /\ d_depth < 2 /\ Arg(1)' \in {-1, 1}

WordSpec == Init /\ [][VmStep \/ StartRun \/ Typed \/ Crashed]_vars

=============================================================================
