--------------------------- MODULE ContractProofs ---------------------------
(***************************************************************************)
(* What the operators of Contract compute, for every sequence: the loops   *)
(* over a sequence are folds, and each is proved by what one turn of it    *)
(* keeps.                                                                  *)
(***************************************************************************)
EXTENDS Contract, SequenceTheorems, TLAPS

Cutting   == INSTANCE FoldProofs WITH op <- CutOne
Passing   == INSTANCE FoldProofs WITH op <- PassOne
Shadowing == INSTANCE FoldProofs WITH op <- ShadowOne

\* An instruction that has a contract.
Known == { ins \in Executed : ins.op \in Contracted }

-----------------------------------------------------------------------------
(***************************************************************************)
(* The tables.                                                             *)
(***************************************************************************)
\* Every contract takes and leaves some number of cells.
LEMMA DataEffectType == DataEffect \in [Contracted -> [pop : 0 .. 3, push : 0 .. 4]]
<1> SUFFICES ASSUME NEW op \in Contracted
             PROVE  DataEffect[op] \in [pop : 0 .. 3, push : 0 .. 4]
  BY DEF DataEffect
<1> QED
  BY DEF Contracted, DataEffect, Takes

LEMMA ReturnEffectType == ReturnEffect \in [Contracted -> [pop : 0 .. 2, push : 0 .. 2]]
<1> SUFFICES ASSUME NEW op \in Contracted
             PROVE  ReturnEffect[op] \in [pop : 0 .. 2, push : 0 .. 2]
  BY DEF ReturnEffect
<1> QED
  BY DEF ReturnEffect, Takes

LEMMA KnownIsExecuted ==
  ASSUME NEW piece \in Seq(Known)
  PROVE  piece \in Seq(Executed)
<1>1. Len(piece) \in Nat /\ piece \in [1 .. Len(piece) -> Known]
  OBVIOUS
<1>2. piece \in [1 .. Len(piece) -> Executed]
  BY <1>1 DEF Known
<1> QED
  BY <1>1, <1>2

LEMMA GainType ==
  ASSUME NEW ins \in Known
  PROVE  Gain(ins) \in Int /\ DataEffect[ins.op].pop \in Nat /\ DataEffect[ins.op].push \in Nat
  BY DataEffectType DEF Gain, Known

-----------------------------------------------------------------------------
(***************************************************************************)
(* The pieces of a trace.                                                  *)
(***************************************************************************)
\* The depths of a sequence without branches: d is what it has gained at its
\* end, and only its first instruction takes cells it did not make.
LivesOn(piece, d) ==
  \E D : /\ D[0] = 0 /\ D[Len(piece)] = d
         /\ \A i \in 1 .. Len(piece) :
              /\ D[i - 1] \in Int /\ D[i] = D[i - 1] + Gain(piece[i])
              /\ i > 1 => D[i - 1] >= DataEffect[piece[i].op].pop

\* Where the piece of a trace stands that ends at a position.
Ends(seq, piece, n) ==
  /\ piece \in Seq(Known)
  /\ Len(piece) <= n
  /\ \A i \in 1 .. Len(piece) : piece[i] = seq[n - Len(piece) + i]

\* Pieces of the first n instructions, one behind the other.
Apart(seq, pieces, n) ==
  \E start :
    \A k \in DOMAIN pieces :
      /\ start[k] \in 1 .. n
      /\ pieces[k] # <<>>
      /\ k > 1 => start[k] >= start[k - 1] + Len(pieces[k - 1])
      /\ Ends(seq, pieces[k], start[k] + Len(pieces[k]) - 1)
      /\ start[k] + Len(pieces[k]) - 1 <= n
      /\ Accepted(pieces[k])
      /\ \E d \in Int : LivesOn(pieces[k], d)

Pieces == Seq(Seq(Known))

LEMMA LivesOnNothing == LivesOn(<<>>, 0)
<1> DEFINE D == [i \in 0 .. 0 |-> 0]
<1>1. D[0] = 0 /\ Len(<<>>) = 0 /\ 1 .. 0 = {}
  OBVIOUS
<1> HIDE DEF D
<1> QED
  BY <1>1 DEF LivesOn

LEMMA LivesOnMore ==
  ASSUME NEW piece \in Seq(Known), NEW d \in Int, LivesOn(piece, d),
         NEW ins \in Known, piece = <<>> \/ d >= DataEffect[ins.op].pop
  PROVE  LivesOn(Append(piece, ins), d + Gain(ins))
<1>1. PICK D : /\ D[0] = 0 /\ D[Len(piece)] = d
               /\ \A i \in 1 .. Len(piece) :
                    /\ D[i - 1] \in Int /\ D[i] = D[i - 1] + Gain(piece[i])
                    /\ i > 1 => D[i - 1] >= DataEffect[piece[i].op].pop
  BY DEF LivesOn
<1> DEFINE n == Len(piece)
           more == Append(piece, ins)
           E == [i \in 0 .. n + 1 |-> IF i = n + 1 THEN d + Gain(ins) ELSE D[i]]
<1>2. n \in Nat /\ Len(more) = n + 1 /\ more[n + 1] = ins /\ \A i \in 1 .. n : more[i] = piece[i]
  OBVIOUS
<1>3. E[0] = 0 /\ E[n + 1] = d + Gain(ins) /\ E[n] = d
  BY <1>1, <1>2
<1>4. ASSUME NEW i \in 1 .. n + 1
      PROVE  /\ E[i - 1] \in Int /\ E[i] = E[i - 1] + Gain(more[i])
             /\ i > 1 => E[i - 1] >= DataEffect[more[i].op].pop
  <2>1. CASE i = n + 1
    <3>1. i > 1 => piece # <<>>
      BY <2>1
    <3> QED
      BY <1>2, <1>3, <2>1, <3>1
  <2>2. CASE i \in 1 .. n
    <3>1. E[i] = D[i] /\ E[i - 1] = D[i - 1]
      BY <1>2, <2>2
    <3> QED
      BY <1>1, <1>2, <2>2, <3>1
  <2> QED
    BY <1>2, <2>1, <2>2
<1> HIDE DEF E
<1> QED
  BY <1>2, <1>3, <1>4 DEF LivesOn

\* A piece that ends where the sequence has come to goes behind the others.
LEMMA OneMoreApart ==
  ASSUME NEW seq, NEW pieces \in Pieces, NEW n \in Nat, NEW piece \in Seq(Known),
         Apart(seq, pieces, n - Len(piece)), Ends(seq, piece, n), NEW d \in Int,
         LivesOn(piece, d), piece # <<>>, Accepted(piece)
  PROVE  Apart(seq, Append(pieces, piece), n)
<1> DEFINE m == n - Len(piece)
           more == Append(pieces, piece)
<1>1. PICK start :
        \A k \in DOMAIN pieces :
          /\ start[k] \in 1 .. m
          /\ pieces[k] # <<>>
          /\ k > 1 => start[k] >= start[k - 1] + Len(pieces[k - 1])
          /\ Ends(seq, pieces[k], start[k] + Len(pieces[k]) - 1)
          /\ start[k] + Len(pieces[k]) - 1 <= m
          /\ Accepted(pieces[k])
          /\ \E e \in Int : LivesOn(pieces[k], e)
  BY DEF Apart
<1> DEFINE N == Len(pieces)
           S == [k \in 1 .. N + 1 |-> IF k = N + 1 THEN m + 1 ELSE start[k]]
<1>2. N \in Nat /\ DOMAIN pieces = 1 .. N /\ DOMAIN more = 1 .. N + 1
      /\ more[N + 1] = piece /\ \A k \in 1 .. N : more[k] = pieces[k] /\ pieces[k] \in Seq(Known)
  BY DEF Pieces
<1>3. Len(piece) \in Nat /\ Len(piece) > 0 /\ m \in 0 .. n - 1 /\ m = n - Len(piece)
  BY DEF Ends
<1>4. S[N + 1] = m + 1 /\ \A k \in 1 .. N : S[k] = start[k]
  BY <1>2
<1> HIDE DEF S, more, m, N
<1>5. ASSUME NEW k \in 1 .. N + 1
      PROVE  /\ S[k] \in 1 .. n
             /\ more[k] # <<>>
             /\ k > 1 => S[k] >= S[k - 1] + Len(more[k - 1])
             /\ Ends(seq, more[k], S[k] + Len(more[k]) - 1)
             /\ S[k] + Len(more[k]) - 1 <= n
             /\ Accepted(more[k])
             /\ \E e \in Int : LivesOn(more[k], e)
  <2>1. CASE k = N + 1
    <3>1. S[k] = m + 1 /\ more[k] = piece
      BY <1>2, <1>4, <2>1
    <3>2. S[k] + Len(more[k]) - 1 = n /\ S[k] \in 1 .. n
      BY <3>1, <1>3
    <3>3. k > 1 => S[k] >= S[k - 1] + Len(more[k - 1])
      <4>1. SUFFICES ASSUME k > 1 PROVE S[k] >= S[k - 1] + Len(more[k - 1])
        OBVIOUS
      <4>2. N \in 1 .. N /\ k - 1 = N
        BY <1>2, <2>1, <4>1
      <4>3. S[k - 1] = start[N] /\ more[k - 1] = pieces[N]
        <5>1. S[N] = start[N] /\ more[N] = pieces[N]
          BY <1>2, <1>4, <4>2
        <5> QED
          BY <4>2, <5>1, Zenon
      <4>4. start[N] \in Int /\ Len(pieces[N]) \in Nat /\ start[N] + Len(pieces[N]) - 1 <= m
        <5>1. N \in DOMAIN pieces /\ pieces[N] \in Seq(Known)
          BY <1>2, <4>2
        <5>2. start[N] \in 1 .. m /\ start[N] + Len(pieces[N]) - 1 <= m
          BY <1>1, <5>1
        <5>3. Len(pieces[N]) \in Nat
          BY <5>1
        <5> QED
          BY <1>3, <5>2, <5>3
      <4> QED
        BY <1>3, <3>1, <4>3, <4>4
    <3> QED
      BY <3>1, <3>2, <3>3
  <2>2. CASE k \in 1 .. N
    <3>1. S[k] = start[k] /\ more[k] = pieces[k] /\ k \in DOMAIN pieces
      BY <1>2, <1>4, <2>2
    <3>2. k > 1 => S[k - 1] = start[k - 1] /\ more[k - 1] = pieces[k - 1]
      BY <1>2, <1>4, <2>2
    <3>3. Len(pieces[k]) \in Nat
      BY <1>2, <2>2
    <3> QED
      BY <1>1, <1>3, <3>1, <3>2, <3>3
  <2> QED
    BY <1>2, <2>1, <2>2
<1>6. Apart(seq, more, n)
  BY <1>2, <1>5 DEF Apart
<1> QED
  BY <1>6 DEF more

LEMMA ApartLater ==
  ASSUME NEW seq, NEW pieces \in Pieces, NEW m \in Int, NEW n \in Int, m <= n,
         Apart(seq, pieces, m)
  PROVE  Apart(seq, pieces, n)
<1>1. PICK start :
        \A k \in DOMAIN pieces :
          /\ start[k] \in 1 .. m
          /\ pieces[k] # <<>>
          /\ k > 1 => start[k] >= start[k - 1] + Len(pieces[k - 1])
          /\ Ends(seq, pieces[k], start[k] + Len(pieces[k]) - 1)
          /\ start[k] + Len(pieces[k]) - 1 <= m
          /\ Accepted(pieces[k])
          /\ \E e \in Int : LivesOn(pieces[k], e)
  BY DEF Apart
<1>2. ASSUME NEW k \in DOMAIN pieces
      PROVE  start[k] \in 1 .. n /\ start[k] + Len(pieces[k]) - 1 <= n
  <2>1. pieces[k] \in Seq(Known)
    BY DEF Pieces
  <2>2. Len(pieces[k]) \in Nat
    BY <2>1
  <2> QED
    BY <1>1, <2>2
<1> QED
  BY <1>1, <1>2 DEF Apart

\* finalize_segment: a piece that is finished is kept behind the others, or
\* dropped.
LEMMA KeptApart ==
  ASSUME NEW seq, NEW pieces \in Pieces, NEW n \in Nat, NEW piece \in Seq(Known),
         Apart(seq, pieces, n - Len(piece)), Ends(seq, piece, n), NEW d \in Int,
         LivesOn(piece, d)
  PROVE  pieces \o Kept(piece) \in Pieces /\ Apart(seq, pieces \o Kept(piece), n)
<1>1. CASE piece # <<>> /\ Accepted(piece)
  <2>1. pieces \o Kept(piece) = Append(pieces, piece)
    BY <1>1 DEF Kept, Pieces
  <2>2. Append(pieces, piece) \in Pieces
    BY DEF Pieces
  <2> QED
    BY <1>1, <2>1, <2>2, OneMoreApart
<1>2. CASE ~(piece # <<>> /\ Accepted(piece))
  <2>1. pieces \o Kept(piece) = pieces
    BY <1>2 DEF Kept, Pieces
  <2>2. n - Len(piece) \in Int /\ n - Len(piece) <= n
    OBVIOUS
  <2> QED
    BY <2>1, <2>2, ApartLater
<1> QED
  BY <1>1, <1>2

-----------------------------------------------------------------------------
\* What build_safe_segments has after n instructions.
CutAfter(seq, n) ==
  { cutting \in [segments : Pieces, piece : Seq(Known), depth : Int] :
      /\ Ends(seq, cutting.piece, n)
      /\ Apart(seq, cutting.segments, n - Len(cutting.piece))
      /\ LivesOn(cutting.piece, cutting.depth) }

LEMMA EndsMore ==
  ASSUME NEW seq, NEW n \in Nat, NEW piece, Ends(seq, piece, n - 1),
         n > 0, seq[n] \in Known
  PROVE  Ends(seq, Append(piece, seq[n]), n)
<1>1. piece \in Seq(Known) /\ Len(piece) \in 0 .. n - 1
  BY DEF Ends
<1> DEFINE more == Append(piece, seq[n])
<1>2. more \in Seq(Known) /\ Len(more) = Len(piece) + 1
      /\ more[Len(piece) + 1] = seq[n]
      /\ \A i \in 1 .. Len(piece) : more[i] = piece[i]
  BY <1>1
<1>3. ASSUME NEW i \in 1 .. Len(piece) + 1
      PROVE  more[i] = seq[n - Len(more) + i]
  <2>1. CASE i = Len(piece) + 1
    <3>1. n - Len(more) + i = n
      BY <1>1, <1>2, <2>1
    <3> HIDE DEF more
    <3> QED
      BY <1>2, <2>1, <3>1
  <2>2. CASE i \in 1 .. Len(piece)
    <3>1. n - Len(more) + i = (n - 1) - Len(piece) + i
      BY <1>1, <1>2
    <3> HIDE DEF more
    <3> QED
      BY <1>2, <2>2, <3>1 DEF Ends
  <2> QED
    BY <1>1, <2>1, <2>2
<1> HIDE DEF more
<1>4. Ends(seq, more, n)
  BY <1>1, <1>2, <1>3 DEF Ends
<1> QED
  BY <1>4 DEF more

LEMMA EndsNothing ==
  ASSUME NEW seq, NEW n \in Nat
  PROVE  Ends(seq, <<>>, n)
  BY DEF Ends

\* One turn: the piece is finished or not, and the instruction goes on with
\* it, starts the next one, or is in none.
LEMMA CutTurn ==
  ASSUME NEW seq \in Seq(Executed), NEW n \in 1 .. Len(seq), NEW c \in CutAfter(seq, n - 1)
  PROVE  CutOne(c, seq[n]) \in CutAfter(seq, n)
<1> DEFINE ins == seq[n]
           out == CutOne(c, ins)
           known == ins.op \in Contracted
           kept == c.segments \o Kept(c.piece)
<1> SUFFICES out \in CutAfter(seq, n)
  OBVIOUS
<1>1. /\ c.segments \in Pieces /\ c.piece \in Seq(Known) /\ c.depth \in Int
      /\ Ends(seq, c.piece, n - 1) /\ Apart(seq, c.segments, (n - 1) - Len(c.piece))
      /\ LivesOn(c.piece, c.depth)
  BY DEF CutAfter
<1>2. n - 1 \in Nat /\ n \in Nat /\ n > 0 /\ ins \in Executed /\ Len(c.piece) \in Nat
  BY <1>1
<1>3. known => ins \in Known
  BY <1>2 DEF Known
<1>4. kept \in Pieces /\ Apart(seq, kept, n - 1)
  BY <1>1, <1>2, KeptApart
<1>5. CASE ~known
  <2>1. out = [segments |-> kept, piece |-> <<>>, depth |-> 0]
    BY <1>5 DEF CutOne
  <2>2. Apart(seq, kept, n)
    BY <1>2, <1>4, ApartLater
  <2>3. Len(<<>>) = 0 /\ n - 0 = n /\ <<>> \in Seq(Known)
    BY <1>2
  <2> HIDE DEF kept
  <2> QED
    BY <1>2, <1>4, <2>1, <2>2, <2>3, EndsNothing, LivesOnNothing DEF CutAfter
<1>6. CASE known /\ CutBefore(ins, c)
  <2>1. out = [segments |-> kept, piece |-> Append(<<>>, ins), depth |-> 0 + Gain(ins)]
    BY <1>6 DEF CutOne
  <2>2. Ends(seq, Append(<<>>, ins), n)
    BY <1>2, <1>3, <1>6, EndsNothing, EndsMore
  <2>3. LivesOn(Append(<<>>, ins), 0 + Gain(ins))
    <3>1. <<>> \in Seq(Known) /\ 0 \in Int
      OBVIOUS
    <3> QED
      BY <1>3, <1>6, <3>1, LivesOnNothing, LivesOnMore
  <2>4. Len(Append(<<>>, ins)) = 1 /\ Append(<<>>, ins) \in Seq(Known)
        /\ 0 + Gain(ins) \in Int
    BY <1>3, <1>6, GainType
  <2> HIDE DEF kept, ins, out
  <2> QED
    BY <1>4, <2>1, <2>2, <2>3, <2>4 DEF CutAfter
<1>7. CASE known /\ ~CutBefore(ins, c)
  <2>1. out = [segments |-> c.segments, piece |-> Append(c.piece, ins),
               depth |-> c.depth + Gain(ins)]
    BY <1>7 DEF CutOne
  <2>2. Ends(seq, Append(c.piece, ins), n)
    BY <1>1, <1>2, <1>3, <1>7, EndsMore
  <2>3. c.depth >= DataEffect[ins.op].pop
    BY <1>1, <1>3, <1>7, GainType DEF CutBefore
  <2>4. LivesOn(Append(c.piece, ins), c.depth + Gain(ins))
    BY <1>1, <1>3, <1>7, <2>3, LivesOnMore
  <2>5. n - Len(Append(c.piece, ins)) = (n - 1) - Len(c.piece)
    BY <1>1, <1>2
  <2>6. Append(c.piece, ins) \in Seq(Known) /\ c.depth + Gain(ins) \in Int
    BY <1>1, <1>3, <1>7, GainType
  <2> HIDE DEF ins, out
  <2> QED
    BY <1>1, <2>1, <2>2, <2>4, <2>5, <2>6 DEF CutAfter
<1> QED
  BY <1>5, <1>6, <1>7

\* build_safe_segments: the pieces are accepted parts of the trace, one
\* behind the other.
THEOREM SegmentsAreApart ==
  ASSUME NEW seq \in Seq(Executed)
  PROVE  SafeSegments(seq) \in Pieces /\ Apart(seq, SafeSegments(seq), Len(seq))
<1> DEFINE base == [segments |-> <<>>, piece |-> <<>>, depth |-> 0]
           last == Cutting!Fold(base, seq)
           Held == [n \in 0 .. Len(seq) |-> CutAfter(seq, n)]
<1>1. SafeSegments(seq) = last.segments \o Kept(last.piece)
  BY DEF SafeSegments, FoldLeft, MapThenFoldSet, Max, Cutting!Fold, Cutting!FoldLeft,
         Cutting!MapThenFoldSet, Cutting!Max
<1>2. base \in Held[0]
  <2>1. Apart(seq, <<>>, 0 - Len(<<>>))
    BY DEF Apart
  <2>2. base \in [segments : Pieces, piece : Seq(Known), depth : Int]
    BY DEF Pieces
  <2>3. base \in CutAfter(seq, 0)
    BY <2>1, <2>2, EndsNothing, LivesOnNothing DEF CutAfter
  <2> QED
    BY <2>3
<1>3. \A n \in 1 .. Len(seq) : \A c \in Held[n - 1] : CutOne(c, seq[n]) \in Held[n]
  BY CutTurn
<1>4. last \in CutAfter(seq, Len(seq))
  <2> HIDE DEF Held, base, last
  <2>1. last \in Held[Len(seq)]
    BY <1>2, <1>3, Cutting!FoldHolds DEF last
  <2> QED
    BY <2>1 DEF Held
<1> HIDE DEF last
<1>5. Len(seq) \in Nat
  OBVIOUS
<1> QED
  BY <1>1, <1>4, <1>5, KeptApart DEF CutAfter

-----------------------------------------------------------------------------
(***************************************************************************)
(* The depth pass.                                                         *)
(***************************************************************************)
Depths == {Unreached} \cup (Int \X Int)

Passes(seq) ==
  [ok : BOOLEAN, at : Nat, depth : [0 .. Len(seq) -> Depths],
   low : [1 .. 2 -> Int], high : [1 .. 2 -> Int]]

\* The depths behind the pops and behind the pushes of an instruction.
Taken(ins, depth) ==
  <<depth[1] - DataEffect[ins.op].pop, depth[2] - ReturnEffect[ins.op].pop>>

After(ins, depth) ==
  <<depth[1] - DataEffect[ins.op].pop + DataEffect[ins.op].push,
    depth[2] - ReturnEffect[ins.op].pop + ReturnEffect[ins.op].push>>

\* What a pass says of the instruction behind position p.
SaysOf(pass, seq, p) ==
  /\ seq[p + 1] \in Known
  /\ pass.depth[p] \in Int \X Int
  /\ \A e \in Exits(seq[p + 1], p + 1) :
       e \in 0 .. Len(seq) /\ pass.depth[e] = After(seq[p + 1], pass.depth[p])
  /\ \A k \in 1 .. 2 : /\ pass.low[k] <= Taken(seq[p + 1], pass.depth[p])[k]
                       /\ After(seq[p + 1], pass.depth[p])[k] <= pass.high[k]

\* What a pass says after n instructions; the lowest depth is one that an
\* instruction really leads to.
PassedTo(pass, seq, n) ==
  /\ pass.at = n
  /\ pass.depth[0] = <<0, 0>>
  /\ \A k \in 1 .. 2 : pass.low[k] <= 0 /\ 0 <= pass.high[k]
  /\ \A p \in 0 .. n - 1 : SaysOf(pass, seq, p)
  /\ \/ pass.low[1] = 0
     \/ \E p \in 0 .. n - 1 : pass.low[1] = Taken(seq[p + 1], pass.depth[p])[1]

PassedAfter(seq, n) == { pass \in Passes(seq) : pass.ok => PassedTo(pass, seq, n) }

LEMMA TwoNumbers ==
  ASSUME NEW a \in Int, NEW b \in Int
  PROVE  /\ Min({a, b}) \in Int /\ Min({a, b}) <= a /\ Min({a, b}) <= b
         /\ Min({a, b}) \in {a, b}
         /\ Max({a, b}) \in Int /\ Max({a, b}) >= a /\ Max({a, b}) >= b
<1>1. \E x \in {a, b} : \A y \in {a, b} : x <= y
  <2>1. CASE a <= b
    BY <2>1
  <2>2. CASE b <= a
    BY <2>2
  <2> QED
    BY <2>1, <2>2
<1>2. \E x \in {a, b} : \A y \in {a, b} : x >= y
  <2>1. CASE a <= b
    BY <2>1
  <2>2. CASE b <= a
    BY <2>2
  <2> QED
    BY <2>1, <2>2
<1>3. Min({a, b}) \in {a, b} /\ \A y \in {a, b} : Min({a, b}) <= y
  BY <1>1 DEF Min
<1>4. Max({a, b}) \in {a, b} /\ \A y \in {a, b} : Max({a, b}) >= y
  BY <1>2 DEF Max
<1> QED
  BY <1>3, <1>4

LEMMA EffectTypes ==
  ASSUME NEW ins \in Known, NEW depth \in Int \X Int
  PROVE  Taken(ins, depth) \in Int \X Int /\ After(ins, depth) \in Int \X Int
<1>1. DataEffect[ins.op] \in [pop : 0 .. 3, push : 0 .. 4]
      /\ ReturnEffect[ins.op] \in [pop : 0 .. 2, push : 0 .. 2]
  BY DataEffectType, ReturnEffectType DEF Known
<1> QED
  BY <1>1 DEF Taken, After

LEMMA PairsAreReached == \A d \in Int \X Int : d # Unreached
<1> SUFFICES ASSUME NEW a \in Int, NEW b \in Int PROVE <<a, b>> # <<>>
  BY DEF Unreached
<1>1. Len(<<a, b>>) = 2 /\ Len(<<>>) = 0
  OBVIOUS
<1> QED
  BY <1>1

LEMMA PassTurn ==
  ASSUME NEW seq \in Seq(Executed), NEW n \in 1 .. Len(seq), NEW pass \in PassedAfter(seq, n - 1)
  PROVE  PassOne(pass, seq[n]) \in PassedAfter(seq, n)
<1> DEFINE ins == seq[n]
           out == PassOne(pass, ins)
           on == pass.ok /\ ins.op \in Contracted /\ pass.depth[pass.at] # Unreached
           exits == Exits(ins, n)
           here == pass.depth[n - 1]
<1> SUFFICES out \in PassedAfter(seq, n)
  OBVIOUS
<1>1. pass \in Passes(seq) /\ (pass.ok => PassedTo(pass, seq, n - 1))
  BY DEF PassedAfter
<1>2. n \in Nat /\ n - 1 \in Nat /\ n \in 0 .. Len(seq) /\ n - 1 \in 0 .. Len(seq)
      /\ ins \in Executed /\ Len(seq) \in Nat
  OBVIOUS
<1>3. CASE ~on
  <2>1. out = [pass EXCEPT !.ok = FALSE]
    BY <1>3 DEF PassOne
  <2> HIDE DEF out
  <2> QED
    BY <1>1, <2>1 DEF PassedAfter, Passes
<1>4. CASE on
  <2>1. ins \in Known
    BY <1>2, <1>4 DEF Known
  <2>2. pass.ok /\ pass.at = n - 1 /\ PassedTo(pass, seq, n - 1)
    BY <1>1, <1>4 DEF PassedTo
  <2>3. here \in Int \X Int
    BY <1>1, <1>2, <1>4, <2>2 DEF Passes, Depths
  <2> DEFINE taken == Taken(ins, here)
             after == After(ins, here)
  <2>4. taken \in Int \X Int /\ after \in Int \X Int
    BY <2>1, <2>3, EffectTypes
  <2>5. out = Reach(pass, exits, taken, after)
    BY <1>2, <1>4, <2>2 DEF PassOne, PassOver, Taken, After
  <2> HIDE DEF taken, after, out, exits, here
  <2>6. /\ out.ok = (\A e \in exits : e \in DOMAIN pass.depth /\ pass.depth[e] \in {Unreached, after})
        /\ out.at = pass.at + 1
        /\ out.depth = [p \in DOMAIN pass.depth |-> IF p \in exits THEN after ELSE pass.depth[p]]
        /\ out.low = [k \in 1 .. 2 |-> Min({pass.low[k], taken[k]})]
        /\ out.high = [k \in 1 .. 2 |-> Max({pass.high[k], after[k]})]
        /\ out.ok \in BOOLEAN
    BY <2>5 DEF Reach
  <2>7. \A k \in 1 .. 2 : /\ pass.low[k] \in Int /\ pass.high[k] \in Int
                          /\ taken[k] \in Int /\ after[k] \in Int
    BY <1>1, <2>4 DEF Passes
  <2>8. ASSUME NEW k \in 1 .. 2
        PROVE  /\ out.low[k] \in Int /\ out.low[k] \in {pass.low[k], taken[k]}
               /\ out.low[k] <= pass.low[k] /\ out.low[k] <= taken[k]
               /\ out.high[k] \in Int
               /\ out.high[k] >= pass.high[k] /\ out.high[k] >= after[k]
    <3>1. out.low[k] = Min({pass.low[k], taken[k]}) /\ out.high[k] = Max({pass.high[k], after[k]})
      BY <2>6
    <3>2. pass.low[k] \in Int /\ pass.high[k] \in Int /\ taken[k] \in Int /\ after[k] \in Int
      BY <2>7
    <3>3. /\ Min({pass.low[k], taken[k]}) \in Int
          /\ Min({pass.low[k], taken[k]}) <= pass.low[k] /\ Min({pass.low[k], taken[k]}) <= taken[k]
          /\ Min({pass.low[k], taken[k]}) \in {pass.low[k], taken[k]}
      BY <3>2, TwoNumbers
    <3>4. /\ Max({pass.high[k], after[k]}) \in Int
          /\ Max({pass.high[k], after[k]}) >= pass.high[k]
          /\ Max({pass.high[k], after[k]}) >= after[k]
      BY <3>2, TwoNumbers
    <3> QED
      BY <3>1, <3>3, <3>4
  <2>9. pass.depth \in [0 .. Len(seq) -> Depths] /\ DOMAIN pass.depth = 0 .. Len(seq)
    BY <1>1 DEF Passes
  <2>10. out \in Passes(seq)
    <3>1. out.depth \in [0 .. Len(seq) -> Depths]
      BY <2>4, <2>6, <2>9 DEF Depths
    <3>2. out.low \in [1 .. 2 -> Int] /\ out.high \in [1 .. 2 -> Int]
      BY <2>6, <2>8
    <3>3. out = [ok |-> out.ok, at |-> out.at, depth |-> out.depth, low |-> out.low,
                 high |-> out.high]
      BY <2>5 DEF Reach
    <3>4. out.at \in Nat
      BY <1>2, <2>2, <2>6
    <3> QED
      BY <2>6, <3>1, <3>2, <3>3, <3>4 DEF Passes
  <2>11. ASSUME out.ok PROVE PassedTo(out, seq, n)
    <3>1. \A p \in 0 .. Len(seq) : pass.depth[p] # Unreached => out.depth[p] = pass.depth[p]
      <4>1. \A e \in exits : pass.depth[e] = Unreached \/ pass.depth[e] = after
        BY <2>5, <2>11 DEF Reach
      <4> QED
        BY <2>6, <2>9, <4>1
    <3>2. \A e \in exits : e \in 0 .. Len(seq) /\ out.depth[e] = after
      BY <2>6, <2>9, <2>11
    <3>3. \A d \in Int \X Int : d # Unreached
      BY PairsAreReached
    <3>4. ASSUME NEW p \in 0 .. (n - 1) - 1
          PROVE  SaysOf(out, seq, p) /\ out.depth[p] = pass.depth[p]
      <4>1. SaysOf(pass, seq, p)
        BY <2>2 DEF PassedTo
      <4>2. p \in 0 .. Len(seq) /\ out.depth[p] = pass.depth[p]
        BY <1>2, <3>1, <3>3, <4>1 DEF SaysOf
      <4> DEFINE to == After(seq[p + 1], pass.depth[p])
                 from == Taken(seq[p + 1], pass.depth[p])
      <4>3. to \in Int \X Int /\ from \in Int \X Int
        BY <4>1, EffectTypes DEF SaysOf
      <4> HIDE DEF to, from
      <4>4. \A e \in Exits(seq[p + 1], p + 1) : e \in 0 .. Len(seq) /\ out.depth[e] = to
        BY <3>1, <3>3, <4>1, <4>3 DEF SaysOf, to
      <4>5. \A k \in 1 .. 2 : pass.low[k] <= from[k] /\ to[k] <= pass.high[k]
        BY <4>1 DEF SaysOf, to, from
      <4>6. \A k \in 1 .. 2 : from[k] \in Int /\ to[k] \in Int
        BY <4>3
      <4>7. ASSUME NEW k \in 1 .. 2
            PROVE  out.low[k] <= from[k] /\ to[k] <= out.high[k]
        <5>1. pass.low[k] <= from[k] /\ to[k] <= pass.high[k]
          BY <4>5
        <5>2. out.low[k] \in Int /\ out.high[k] \in Int
              /\ out.low[k] <= pass.low[k] /\ out.high[k] >= pass.high[k]
          BY <2>8
        <5>3. /\ pass.low[k] \in Int /\ pass.high[k] \in Int
              /\ from[k] \in Int /\ to[k] \in Int
          BY <2>7, <4>6
        <5> QED
          BY <5>1, <5>2, <5>3
      <4> QED
        BY <4>1, <4>2, <4>4, <4>7 DEF SaysOf, to, from
    <3>5. out.depth[n - 1] = here
      BY <1>2, <2>3, <3>1, <3>3 DEF here
    <3>6. SaysOf(out, seq, n - 1)
      <4>1. (n - 1) + 1 = n
        BY <1>2
      <4>2. /\ \A e \in Exits(ins, n) : e \in 0 .. Len(seq) /\ out.depth[e] = After(ins, out.depth[n - 1])
            /\ Taken(ins, out.depth[n - 1]) = taken /\ After(ins, out.depth[n - 1]) = after
        BY <3>2, <3>5 DEF exits, taken, after
      <4>3. out.depth[n - 1] \in Int \X Int
        BY <2>3, <3>5
      <4> QED
        BY <2>1, <2>8, <4>1, <4>2, <4>3 DEF SaysOf
    <3>7. out.depth[0] = <<0, 0>>
      <4>1. <<0, 0>> \in Int \X Int /\ pass.depth[0] = <<0, 0>> /\ 0 \in 0 .. Len(seq)
        BY <1>2, <2>2 DEF PassedTo
      <4> QED
        BY <3>1, <3>3, <4>1
    <3>8. ASSUME NEW k \in 1 .. 2
          PROVE  out.low[k] <= 0 /\ 0 <= out.high[k]
      <4>1. pass.low[k] <= 0 /\ 0 <= pass.high[k]
        BY <2>2 DEF PassedTo
      <4>2. pass.low[k] \in Int /\ pass.high[k] \in Int
        BY <2>7
      <4>3. out.low[k] \in Int /\ out.high[k] \in Int
            /\ out.low[k] <= pass.low[k] /\ out.high[k] >= pass.high[k]
        BY <2>8
      <4> QED
        BY <4>1, <4>2, <4>3
    <3>9. out.low[1] = 0 \/ \E p \in 0 .. n - 1 : out.low[1] = Taken(seq[p + 1], out.depth[p])[1]
      <4>1. CASE out.low[1] = taken[1]
        <5>1. (n - 1) + 1 = n /\ n - 1 \in 0 .. n - 1
          BY <1>2
        <5> QED
          BY <3>5, <4>1, <5>1 DEF taken
      <4>2. CASE out.low[1] = pass.low[1] /\ pass.low[1] = 0
        BY <4>2
      <4>3. CASE out.low[1] = pass.low[1] /\ pass.low[1] # 0
        <5>1. PICK p \in 0 .. (n - 1) - 1 : pass.low[1] = Taken(seq[p + 1], pass.depth[p])[1]
          BY <2>2, <4>3 DEF PassedTo
        <5>2. p \in 0 .. n - 1 /\ out.depth[p] = pass.depth[p]
          BY <1>2, <3>4
        <5> QED
          BY <4>3, <5>1, <5>2
      <4>4. out.low[1] \in {pass.low[1], taken[1]}
        BY <2>8
      <4> QED
        BY <4>1, <4>2, <4>3, <4>4
    <3>10. out.at = n
      BY <1>2, <2>2, <2>6
    <3>11. \A p \in 0 .. n - 1 : p \in 0 .. (n - 1) - 1 \/ p = n - 1
      BY <1>2
    <3> QED
      BY <3>4, <3>6, <3>7, <3>8, <3>9, <3>10, <3>11 DEF PassedTo
  <2> QED
    BY <2>10, <2>11 DEF PassedAfter
<1> QED
  BY <1>3, <1>4

\* The depth pass of an accepted sequence: every instruction has a contract
\* and a depth, which every way to it agrees on.
THEOREM PassSays ==
  ASSUME NEW seq \in Seq(Executed)
  PROVE  /\ DepthPass(seq) \in Passes(seq)
         /\ DepthPass(seq).ok => PassedTo(DepthPass(seq), seq, Len(seq))
<1> DEFINE base == NoPass(seq)
           pass == Passing!Fold(base, seq)
           Held == [n \in 0 .. Len(seq) |-> PassedAfter(seq, n)]
<1>1. DepthPass(seq) = pass
  BY DEF DepthPass, FoldLeft, MapThenFoldSet, Max, Passing!Fold, Passing!FoldLeft,
         Passing!MapThenFoldSet, Passing!Max
<1>2. base \in Held[0]
  <2>1. <<0, 0>> \in Int \X Int /\ <<0, 0>> \in [1 .. 2 -> Int] /\ <<0, 0>>[1] = 0 /\ <<0, 0>>[2] = 0
    OBVIOUS
  <2>2. Len(seq) \in Nat /\ 0 \in 0 .. Len(seq)
    OBVIOUS
  <2>3. base.depth \in [0 .. Len(seq) -> Depths] /\ base.depth[0] = <<0, 0>>
    BY <2>1, <2>2 DEF NoPass, Depths
  <2>4. base.ok = TRUE /\ base.at = 0 /\ base.low = <<0, 0>> /\ base.high = <<0, 0>>
    BY DEF NoPass
  <2>5. base \in Passes(seq)
    <3>1. base = [ok |-> base.ok, at |-> base.at, depth |-> base.depth, low |-> base.low, high |-> base.high]
      BY DEF NoPass
    <3> HIDE DEF base
    <3> QED
      BY <2>1, <2>3, <2>4, <3>1 DEF Passes
  <2> HIDE DEF base
  <2>6. PassedTo(base, seq, 0)
    BY <2>1, <2>3, <2>4 DEF PassedTo
  <2> QED
    BY <2>2, <2>5, <2>6 DEF PassedAfter
<1>3. \A n \in 1 .. Len(seq) : \A c \in Held[n - 1] : PassOne(c, seq[n]) \in Held[n]
  BY PassTurn
<1>4. pass \in PassedAfter(seq, Len(seq))
  <2> HIDE DEF Held, base, pass
  <2>1. pass \in Held[Len(seq)]
    BY <1>2, <1>3, Passing!FoldHolds DEF pass
  <2> QED
    BY <2>1 DEF Held
<1> HIDE DEF pass
<1> QED
  BY <1>1, <1>4 DEF PassedAfter

\* Only the first instruction of a piece without branches takes cells that
\* the piece did not make.
LEMMA LivesOnItsOwn ==
  ASSUME NEW piece \in Seq(Known), piece # <<>>, Accepted(piece), NEW d, LivesOn(piece, d),
         \A i \in DOMAIN piece : piece[i].op \notin {"Jump", "JZ"}
  PROVE  Contract(piece).pop_d <= DataEffect[Head(piece).op].pop
<1> DEFINE pass == DepthPass(piece)
           N == Len(piece)
<1>1. N \in Nat /\ N > 0 /\ DOMAIN piece = 1 .. N /\ Head(piece) = piece[1]
      /\ \A p \in 0 .. N - 1 : p + 1 \in 1 .. N /\ piece[p + 1] \in Known
  OBVIOUS
<1>2. pass \in Passes(piece) /\ PassedTo(pass, piece, N)
  BY PassSays, KnownIsExecuted DEF Accepted
<1>3. Contract(piece).pop_d = -pass.low[1]
  BY DEF Contract, ContractOf
<1>4. PICK D : /\ D[0] = 0
               /\ \A i \in 1 .. N :
                    /\ D[i - 1] \in Int /\ D[i] = D[i - 1] + Gain(piece[i])
                    /\ i > 1 => D[i - 1] >= DataEffect[piece[i].op].pop
  BY DEF LivesOn
<1> HIDE DEF pass, N
<1>5. pass.low[1] \in Int /\ pass.depth[0] = <<0, 0>>
  BY <1>2 DEF Passes, PassedTo
<1> DEFINE Good == { p \in 0 .. N - 1 : pass.depth[p][1] = D[p] }
<1>6. 0 \in Good
  BY <1>1, <1>4, <1>5
<1>7. ASSUME NEW p \in 0 .. (N - 1) - 1, p \in Good PROVE p + 1 \in Good
  <2> DEFINE ins == piece[p + 1]
             here == pass.depth[p]
  <2>1. p \in 0 .. N - 1 /\ p + 1 \in 0 .. N - 1 /\ p + 1 \in 1 .. N /\ (p + 1) - 1 = p
    BY <1>1
  <2>2. ins \in Known /\ ins.op \notin {"Jump", "JZ"}
    BY <1>1, <2>1
  <2>3. SaysOf(pass, piece, p)
    BY <1>2, <2>1 DEF PassedTo
  <2>4. here \in Int \X Int /\ pass.depth[p + 1] = After(ins, here)
    BY <2>2, <2>3 DEF SaysOf, Exits
  <2>5. D[p + 1] = D[p] + Gain(ins) /\ D[p] \in Int
    BY <1>4, <2>1
  <2>6. DataEffect[ins.op].pop \in Nat /\ DataEffect[ins.op].push \in Nat
    BY <2>2, GainType
  <2>7. here[1] = D[p]
    BY <1>7
  <2> HIDE DEF ins, here
  <2>8. After(ins, here)[1] = D[p] + Gain(ins)
    BY <2>4, <2>5, <2>6, <2>7 DEF After, Gain
  <2> QED
    BY <2>1, <2>4, <2>5, <2>8
<1>8. \A p \in 0 .. N - 1 : pass.depth[p][1] = D[p]
  <2>1. N - 1 \in Nat
    BY <1>1
  <2>2. \A p \in 0 .. (N - 1) - 1 : p \in Good => p + 1 \in Good
    BY <1>7
  <2> HIDE DEF Good
  <2>3. 0 .. N - 1 \subseteq Good
    BY <1>6, <2>1, <2>2, Passing!UpTo
  <2> QED
    BY <2>3 DEF Good
<1>9. DataEffect[piece[1].op].pop \in Nat
  BY <1>1, GainType
<1>10. CASE pass.low[1] = 0
  BY <1>1, <1>3, <1>9, <1>10
<1>11. CASE pass.low[1] # 0
  <2>1. PICK p \in 0 .. N - 1 : pass.low[1] = Taken(piece[p + 1], pass.depth[p])[1]
    BY <1>2, <1>11 DEF PassedTo
  <2>2. pass.low[1] = D[p] - DataEffect[piece[p + 1].op].pop /\ pass.low[1] <= 0
    BY <1>2, <1>8, <2>1 DEF Taken, PassedTo
  <2>3. p + 1 \in 1 .. N /\ (p + 1) - 1 = p /\ piece[p + 1] \in Known
    BY <1>1
  <2>4. DataEffect[piece[p + 1].op].pop \in Nat
    BY <2>3, GainType
  <2>5. CASE p = 0
    <3>1. pass.low[1] = 0 - DataEffect[piece[1].op].pop
      BY <1>4, <2>2, <2>5
    <3> QED
      BY <1>1, <1>3, <1>9, <3>1
  <2>6. CASE p # 0
    <3>1. D[p] \in Int /\ D[p] >= DataEffect[piece[p + 1].op].pop
      BY <1>4, <2>3, <2>6
    <3> QED
      BY <1>11, <2>2, <2>4, <3>1
  <2> QED
    BY <2>5, <2>6
<1> QED
  BY <1>10, <1>11

-----------------------------------------------------------------------------
(***************************************************************************)
(* The shadow stack.                                                       *)
(***************************************************************************)
Symbols == {Unknown} \cup { <<v>> : v \in Int }

Shadows == [ok : BOOLEAN, stack : Seq(Symbols)]

LEMMA SumSymbol ==
  ASSUME NEW a \in Symbols, NEW b \in Symbols
  PROVE  /\ Sum(a, b) \in Symbols
         /\ Sum(a, b) # Unknown => /\ a # Unknown /\ b # Unknown /\ Sum(a, b) = <<a[1] + b[1]>>
                                   /\ a[1] \in Int /\ b[1] \in Int
<1>1. CASE a # Unknown /\ b # Unknown
  <2>1. PICK x \in Int, y \in Int : a = <<x>> /\ b = <<y>>
    BY <1>1 DEF Symbols
  <2>2. a[1] = x /\ b[1] = y
    BY <2>1
  <2>3. Sum(a, b) = <<x + y>> /\ x + y \in Int
    BY <1>1, <2>2 DEF Sum
  <2> QED
    BY <1>1, <2>2, <2>3 DEF Symbols
<1>2. CASE ~(a # Unknown /\ b # Unknown)
  BY <1>2 DEF Sum, Symbols
<1> QED
  BY <1>1, <1>2

\* What an instruction that has its operands leaves on the shadow stack.
LEMMA LeavesSymbols ==
  ASSUME NEW ins \in Known, NEW stack \in Seq(Symbols),
         Len(stack) >= DataEffect[ins.op].pop
  PROVE  Leaves(ins, stack) \in Seq(Symbols)
<1>1. DataEffect[ins.op].pop \in Nat /\ DataEffect[ins.op].push \in Nat /\ Len(stack) \in Nat
      /\ ins.op \in Contracted /\ ins.data \in Int
  BY GainType DEF Known, Executed
<1>2. \A i \in 1 .. Len(stack) : Top(stack, i) \in Symbols
  <2>1. \A i \in 1 .. Len(stack) : Len(stack) - i + 1 \in 1 .. Len(stack)
    BY <1>1
  <2> QED
    BY <2>1 DEF Top
<1>3. CASE ins.op = "Push"
  <2>1. <<ins.data>> \in Symbols
    BY <1>1 DEF Symbols
  <2> QED
    BY <1>3, <2>1 DEF Leaves
<1>4. CASE ins.op = "Dup"
  <2>1. DataEffect[ins.op].pop = 1
    BY <1>1, <1>4 DEF DataEffect, Takes
  <2>2. Top(stack, 1) \in Symbols
    BY <1>1, <1>2, <2>1
  <2> QED
    BY <1>4, <2>2 DEF Leaves
<1>5. CASE ins.op \in {"Swap", "Over", "Add"}
  <2>1. DataEffect[ins.op].pop = 2
    BY <1>1, <1>5 DEF DataEffect, Takes
  <2>2. Top(stack, 1) \in Symbols /\ Top(stack, 2) \in Symbols
    BY <1>1, <1>2, <2>1
  <2>3. Sum(Top(stack, 1), Top(stack, 2)) \in Symbols
    BY <2>2, SumSymbol
  <2> QED
    BY <1>5, <2>2, <2>3 DEF Leaves
<1>6. CASE ins.op \notin {"Push", "Dup", "Swap", "Over", "Add"}
  <2>1. Leaves(ins, stack) = [k \in 1 .. DataEffect[ins.op].push |-> Unknown]
    BY <1>6 DEF Leaves
  <2>2. Unknown \in Symbols
    BY DEF Symbols
  <2> QED
    BY <1>1, <2>1, <2>2
<1> QED
  BY <1>3, <1>4, <1>5, <1>6

LEMMA PrefixOfStack ==
  ASSUME NEW T, NEW stack \in Seq(T), NEW n \in 0 .. Len(stack)
  PROVE  /\ SubSeq(stack, 1, n) \in Seq(T) /\ Len(SubSeq(stack, 1, n)) = n
         /\ \A i \in 1 .. n : SubSeq(stack, 1, n)[i] = stack[i]
<1>1. Len(stack) \in Nat /\ n \in Int /\ \A i \in 1 .. n : stack[i] \in T
  OBVIOUS
<1>2. /\ SubSeq(stack, 1, n) \in Seq(T)
      /\ Len(SubSeq(stack, 1, n)) = IF 1 <= n THEN n - 1 + 1 ELSE 0
      /\ \A i \in 1 .. n - 1 + 1 : SubSeq(stack, 1, n)[i] = stack[1 + i - 1]
  BY <1>1, SubSeqProperties
<1>3. n - 1 + 1 = n /\ \A i \in 1 .. n : 1 + i - 1 = i
  BY <1>1
<1> QED
  BY <1>1, <1>2, <1>3

LEMMA ShadowTurn ==
  ASSUME NEW shadow \in Shadows, NEW ins \in Known
  PROVE  ShadowOne(shadow, ins) \in Shadows
<1> DEFINE stack == shadow.stack
           pop == DataEffect[ins.op].pop
<1>1. stack \in Seq(Symbols) /\ Len(stack) \in Nat /\ pop \in Nat /\ shadow.ok \in BOOLEAN
      /\ shadow = [ok |-> shadow.ok, stack |-> stack]
  BY GainType DEF Shadows
<1>2. CASE Len(stack) >= pop
  <2> DEFINE more == SubSeq(stack, 1, Len(stack) - pop) \o Leaves(ins, stack)
  <2>1. SubSeq(stack, 1, Len(stack) - pop) \in Seq(Symbols)
    <3>1. Len(stack) - pop \in 0 .. Len(stack)
      BY <1>1, <1>2
    <3> QED
      BY <1>1, <3>1, PrefixOfStack
  <2>2. Leaves(ins, stack) \in Seq(Symbols)
    BY <1>1, <1>2, LeavesSymbols
  <2>3. more \in Seq(Symbols)
    BY <2>1, <2>2
  <2>4. ShadowOne(shadow, ins) = [shadow EXCEPT !.stack = more]
    <3>1. ~(Len(stack) < pop)
      BY <1>1, <1>2
    <3> QED
      BY <1>2, <3>1 DEF ShadowOne
  <2> HIDE DEF more
  <2> QED
    BY <1>1, <2>3, <2>4 DEF Shadows
<1>3. CASE ~(Len(stack) >= pop)
  <2>1. Len(stack) < pop
    BY <1>1, <1>3
  <2>2. ShadowOne(shadow, ins) \in {[shadow EXCEPT !.stack = <<Unknown>>], shadow, [shadow EXCEPT !.ok = FALSE]}
    BY <1>3, <2>1 DEF ShadowOne
  <2>3. <<Unknown>> \in Seq(Symbols)
    BY DEF Symbols
  <2>4. [shadow EXCEPT !.stack = <<Unknown>>] \in Shadows
    BY <1>1, <2>3 DEF Shadows
  <2>5. [shadow EXCEPT !.ok = FALSE] \in Shadows
    BY <1>1 DEF Shadows
  <2> QED
    BY <2>2, <2>4, <2>5
<1> QED
  BY <1>2, <1>3

-----------------------------------------------------------------------------
(***************************************************************************)
(* Sequences without jumps: validation accepts them, and so the cut leaves *)
(* nothing out between their instructions.                                 *)
(***************************************************************************)
\* Known instructions, and no jumps.
Branchless == { piece \in Seq(Known) : \A i \in DOMAIN piece : piece[i].op \notin {"Jump", "JZ"} }

\* The depth pass of a sequence without jumps, behind n instructions: it has
\* refused none, and reached no position further on.
PassedOn(seq, n) ==
  { pass \in PassedAfter(seq, n) :
      /\ pass.ok /\ pass.depth[n] \in Int \X Int
      /\ \A p \in n + 1 .. Len(seq) : pass.depth[p] = Unreached }

LEMMA PassOnTurn ==
  ASSUME NEW seq \in Branchless, NEW n \in 1 .. Len(seq), NEW pass \in PassedOn(seq, n - 1)
  PROVE  PassOne(pass, seq[n]) \in PassedOn(seq, n)
<1> DEFINE ins == seq[n]
           out == PassOne(pass, ins)
           here == pass.depth[n - 1]
           taken == Taken(ins, here)
           after == After(ins, here)
<1>1. /\ seq \in Seq(Known) /\ seq \in Seq(Executed) /\ Len(seq) \in Nat /\ DOMAIN seq = 1 .. Len(seq)
      /\ ins \in Known /\ ins.op \notin {"Jump", "JZ"} /\ ins.op \in Contracted
  BY KnownIsExecuted DEF Branchless, Known
<1>2. n \in Nat /\ n - 1 \in Nat /\ n \in 0 .. Len(seq) /\ n - 1 \in 0 .. Len(seq) /\ n \in (n - 1) + 1 .. Len(seq)
  BY <1>1
<1>3. /\ pass \in PassedAfter(seq, n - 1) /\ pass.ok /\ here \in Int \X Int
      /\ pass.depth[n] = Unreached
      /\ \A p \in n + 1 .. Len(seq) : pass.depth[p] = Unreached
  BY <1>2 DEF PassedOn
<1>4. out \in PassedAfter(seq, n)
  BY <1>1, <1>3, PassTurn
<1>5. pass \in Passes(seq) /\ pass.at = n - 1
  BY <1>3 DEF PassedAfter, PassedTo
<1>6. DOMAIN pass.depth = 0 .. Len(seq)
  BY <1>5 DEF Passes
<1>7. here # Unreached
  BY <1>3, PairsAreReached
<1>8. Exits(ins, n) = {n}
  BY <1>1 DEF Exits
<1>9. out = Reach(pass, {n}, taken, after)
  <2>1. (n - 1) + 1 = n
    BY <1>2
  <2> QED
    BY <1>1, <1>3, <1>5, <1>7, <1>8, <2>1 DEF PassOne, PassOver, Taken, After
<1>10. after \in Int \X Int
  BY <1>1, <1>3, EffectTypes
<1> HIDE DEF ins, out, here, taken, after
<1>11. /\ out.ok = (\A e \in {n} : e \in DOMAIN pass.depth /\ pass.depth[e] \in {Unreached, after})
       /\ out.depth = [p \in DOMAIN pass.depth |-> IF p \in {n} THEN after ELSE pass.depth[p]]
  BY <1>9 DEF Reach
<1>12. out.ok
  BY <1>2, <1>3, <1>6, <1>11
<1>13. out.depth[n] \in Int \X Int
  BY <1>2, <1>6, <1>10, <1>11
<1>14. ASSUME NEW p \in n + 1 .. Len(seq) PROVE out.depth[p] = Unreached
  <2>1. p \in 0 .. Len(seq) /\ p # n
    BY <1>1, <1>2
  <2> QED
    BY <1>3, <1>6, <1>11, <2>1
<1>15. out \in PassedOn(seq, n)
  BY <1>4, <1>12, <1>13, <1>14 DEF PassedOn
<1> QED
  BY <1>15 DEF out, ins

LEMMA PassIsFold ==
  ASSUME NEW seq
  PROVE  DepthPass(seq) = Passing!Fold(NoPass(seq), seq)
  BY DEF DepthPass, FoldLeft, MapThenFoldSet, Max, Passing!Fold, Passing!FoldLeft,
         Passing!MapThenFoldSet, Passing!Max

LEMMA PassStart ==
  ASSUME NEW seq \in Seq(Executed)
  PROVE  NoPass(seq) \in PassedAfter(seq, 0)
<1> DEFINE base == NoPass(seq)
<1>1. <<0, 0>> \in Int \X Int /\ <<0, 0>> \in [1 .. 2 -> Int] /\ <<0, 0>>[1] = 0 /\ <<0, 0>>[2] = 0
  OBVIOUS
<1>2. Len(seq) \in Nat /\ 0 \in 0 .. Len(seq)
  OBVIOUS
<1>3. base.depth \in [0 .. Len(seq) -> Depths] /\ base.depth[0] = <<0, 0>>
  BY <1>1, <1>2 DEF NoPass, Depths
<1>4. base.ok = TRUE /\ base.at = 0 /\ base.low = <<0, 0>> /\ base.high = <<0, 0>>
  BY DEF NoPass
<1>5. base \in Passes(seq)
  <2>1. base = [ok |-> base.ok, at |-> base.at, depth |-> base.depth, low |-> base.low, high |-> base.high]
    BY DEF NoPass
  <2> HIDE DEF base
  <2> QED
    BY <1>1, <1>3, <1>4, <2>1 DEF Passes
<1> HIDE DEF base
<1>6. PassedTo(base, seq, 0)
  BY <1>1, <1>3, <1>4 DEF PassedTo
<1> QED
  BY <1>2, <1>5, <1>6 DEF PassedAfter, base

LEMMA BranchlessPasses ==
  ASSUME NEW seq \in Branchless
  PROVE  DepthPass(seq) \in PassedOn(seq, Len(seq))
<1> DEFINE base == NoPass(seq)
           Held == [n \in 0 .. Len(seq) |-> PassedOn(seq, n)]
<1>1. seq \in Seq(Known) /\ seq \in Seq(Executed) /\ Len(seq) \in Nat
  BY KnownIsExecuted DEF Branchless
<1>2. base \in PassedOn(seq, 0)
  <2>1. base \in PassedAfter(seq, 0)
    BY <1>1, PassStart
  <2>2. base.ok /\ base.depth = [p \in 0 .. Len(seq) |-> IF p = 0 THEN <<0, 0>> ELSE Unreached]
    BY DEF NoPass
  <2>3. base.depth[0] = <<0, 0>> /\ \A p \in 0 + 1 .. Len(seq) : base.depth[p] = Unreached
    BY <1>1, <2>2
  <2> HIDE DEF base
  <2> QED
    BY <2>1, <2>2, <2>3 DEF PassedOn
<1>3. \A n \in 0 .. Len(seq) : Held[n] = PassedOn(seq, n)
  OBVIOUS
<1> HIDE DEF Held, base
<1>4. ASSUME NEW n \in 1 .. Len(seq), NEW pass \in Held[n - 1]
      PROVE  PassOne(pass, seq[n]) \in Held[n]
  <2>1. n - 1 \in 0 .. Len(seq) /\ n \in 0 .. Len(seq)
    BY <1>1
  <2> QED
    BY <1>3, <2>1, PassOnTurn
<1>5. base \in Held[0]
  BY <1>1, <1>2, <1>3
<1>6. Passing!Fold(base, seq) \in Held[Len(seq)]
  BY <1>1, <1>4, <1>5, Passing!FoldHolds
<1> QED
  BY <1>1, <1>3, <1>6, PassIsFold DEF base

\* How many cells an instruction leaves on the shadow stack: no fewer than
\* its contract says.
LEMMA LeavesLength ==
  ASSUME NEW ins \in Known, NEW stack \in Seq(Symbols),
         Len(stack) >= DataEffect[ins.op].pop
  PROVE  Len(Leaves(ins, stack)) \in Nat /\ Len(Leaves(ins, stack)) >= DataEffect[ins.op].push
<1>1. ins.op \in Contracted /\ DataEffect[ins.op].push \in Nat
  BY GainType DEF Known
<1>2. CASE ins.op = "Push"
  <2>1. Len(Leaves(ins, stack)) = 1 /\ DataEffect[ins.op].push = 1
    BY <1>1, <1>2 DEF Leaves, DataEffect, Takes
  <2> QED
    BY <2>1
<1>3. CASE ins.op = "Dup"
  <2>1. Len(Leaves(ins, stack)) = 2 /\ DataEffect[ins.op].push = 2
    BY <1>1, <1>3 DEF Leaves, DataEffect, Takes
  <2> QED
    BY <2>1
<1>4. CASE ins.op = "Swap"
  <2>1. Len(Leaves(ins, stack)) = 2 /\ DataEffect[ins.op].push = 2
    BY <1>1, <1>4 DEF Leaves, DataEffect, Takes
  <2> QED
    BY <2>1
<1>5. CASE ins.op = "Over"
  <2>1. Len(Leaves(ins, stack)) = 3 /\ DataEffect[ins.op].push = 2
    BY <1>1, <1>5 DEF Leaves, DataEffect, Takes
  <2> QED
    BY <2>1
<1>6. CASE ins.op = "Add"
  <2>1. Len(Leaves(ins, stack)) = 1 /\ DataEffect[ins.op].push = 1
    BY <1>1, <1>6 DEF Leaves, DataEffect, Takes
  <2> QED
    BY <2>1
<1>7. CASE ins.op \notin {"Push", "Dup", "Swap", "Over", "Add"}
  <2>1. Leaves(ins, stack) = [k \in 1 .. DataEffect[ins.op].push |-> Unknown]
    BY <1>7 DEF Leaves
  <2>2. Len([k \in 1 .. DataEffect[ins.op].push |-> Unknown]) = DataEffect[ins.op].push
    BY <1>1
  <2> QED
    BY <1>1, <2>1, <2>2
<1> QED
  BY <1>2, <1>3, <1>4, <1>5, <1>6, <1>7

\* What is on the shadow stack when n instructions have been gone over, if
\* it held unknowns cells before: all that the depth pass counts.
Shadowed(pass, unknowns, n) ==
  { shadow \in Shadows : shadow.ok /\ Len(shadow.stack) >= unknowns + pass.depth[n][1] }

LEMMA ShadowOnTurn ==
  ASSUME NEW seq \in Branchless, NEW pass \in Passes(seq), PassedTo(pass, seq, Len(seq)),
         NEW n \in 1 .. Len(seq), NEW shadow \in Shadowed(pass, -pass.low[1], n - 1)
  PROVE  ShadowOne(shadow, seq[n]) \in Shadowed(pass, -pass.low[1], n)
<1> DEFINE ins == seq[n]
           pop == DataEffect[ins.op].pop
           push == DataEffect[ins.op].push
           stack == shadow.stack
           low == pass.low[1]
           from == pass.depth[n - 1][1]
           to == pass.depth[n][1]
           more == SubSeq(stack, 1, Len(stack) - pop) \o Leaves(ins, stack)
           out == ShadowOne(shadow, ins)
<1>1. /\ Len(seq) \in Nat /\ DOMAIN seq = 1 .. Len(seq) /\ n \in 1 .. Len(seq)
      /\ ins \in Known /\ ins.op \notin {"Jump", "JZ"}
  BY DEF Branchless
<1>2. n - 1 \in 0 .. Len(seq) - 1 /\ (n - 1) + 1 = n
  BY <1>1
<1>3. SaysOf(pass, seq, n - 1)
  BY <1>2 DEF PassedTo
<1>4. pass.depth[n - 1] \in Int \X Int /\ pass.depth[n] = After(ins, pass.depth[n - 1])
  BY <1>1, <1>2, <1>3 DEF SaysOf, Exits
<1>5. low \in Int /\ from \in Int /\ pop \in Nat /\ push \in Nat
  BY <1>1, <1>4, GainType DEF Passes
<1>6. to = from - pop + push /\ low <= from - pop
  <2>1. After(ins, pass.depth[n - 1])[1] = from - pop + push
    BY DEF After
  <2>2. Taken(ins, pass.depth[n - 1])[1] = from - pop
    BY DEF Taken
  <2>3. pass.low[1] <= Taken(ins, pass.depth[n - 1])[1]
    BY <1>2, <1>3 DEF SaysOf
  <2> QED
    BY <1>4, <2>1, <2>2, <2>3
<1>7. /\ shadow \in Shadows /\ shadow.ok /\ Len(stack) >= -low + from
      /\ stack \in Seq(Symbols) /\ Len(stack) \in Nat
  BY DEF Shadowed, Shadows
<1> HIDE DEF ins, pop, push, stack, low, from, to, more, out
<1>8. Len(stack) >= pop /\ Len(stack) - pop \in 0 .. Len(stack)
  BY <1>5, <1>6, <1>7
<1>9. out = [shadow EXCEPT !.stack = more]
  <2>1. /\ Len(shadow.stack) >= DataEffect[ins.op].pop
        /\ ~(Len(shadow.stack) < DataEffect[ins.op].pop)
    <3>1. PICK l \in Nat : l = Len(stack)
      BY <1>7
    <3>2. PICK p \in Nat : p = pop
      BY <1>5
    <3>3. l >= p /\ ~(l < p)
      BY <1>8, <3>1, <3>2
    <3> QED
      BY <3>1, <3>2, <3>3 DEF stack, pop
  <2> QED
    BY <2>1 DEF ShadowOne, out, more, stack, pop
<1>10. out \in Shadows
  BY <1>1, <1>7, ShadowTurn DEF out
<1>11. SubSeq(stack, 1, Len(stack) - pop) \in Seq(Symbols)
       /\ Len(SubSeq(stack, 1, Len(stack) - pop)) = Len(stack) - pop
  BY <1>7, <1>8, PrefixOfStack
<1>12. Leaves(ins, stack) \in Seq(Symbols) /\ Len(Leaves(ins, stack)) \in Nat
       /\ Len(Leaves(ins, stack)) >= push
  BY <1>1, <1>7, <1>8, LeavesSymbols, LeavesLength DEF pop, push
<1>13. Len(more) = Len(stack) - pop + Len(Leaves(ins, stack))
  <2>1. PICK a \in Seq(Symbols), b \in Seq(Symbols) :
          a = SubSeq(stack, 1, Len(stack) - pop) /\ b = Leaves(ins, stack)
    BY <1>11, <1>12
  <2>2. Len(a \o b) = Len(a) + Len(b)
    OBVIOUS
  <2> QED
    BY <1>11, <2>1, <2>2 DEF more
<1>14. out.stack = more /\ out.ok = shadow.ok
  BY <1>7, <1>9 DEF Shadows
<1>15. Len(more) >= -low + to
  <2>1. PICK k \in Nat : k = Len(Leaves(ins, stack))
    BY <1>12
  <2>2. PICK l \in Nat : l = Len(stack)
    BY <1>7
  <2>3. Len(more) = l - pop + k /\ k >= push /\ l >= -low + from
    BY <1>7, <1>12, <1>13, <2>1, <2>2
  <2> QED
    BY <1>5, <1>6, <2>1, <2>2, <2>3
<1>16. out \in Shadowed(pass, -pass.low[1], n)
  BY <1>7, <1>10, <1>14, <1>15 DEF Shadowed, low, to
<1> QED
  BY <1>16 DEF out, ins

\* validate_sequence_contract accepts every sequence of instructions that
\* have a contract, as long as there is no jump in it.
THEOREM BranchlessIsAccepted ==
  ASSUME NEW seq \in Branchless
  PROVE  Accepted(seq)
<1> DEFINE pass == DepthPass(seq)
           u == -pass.low[1]
           base == [ok |-> TRUE, stack |-> [k \in 1 .. u |-> Unknown]]
           Held == [n \in 0 .. Len(seq) |-> Shadowed(pass, u, n)]
<1>1. seq \in Seq(Known) /\ Len(seq) \in Nat
  BY DEF Branchless
<1>2. pass \in PassedOn(seq, Len(seq))
  BY BranchlessPasses
<1> HIDE DEF pass
<1>3. pass.ok /\ pass.depth[Len(seq)] # Unreached /\ pass \in Passes(seq) /\ PassedTo(pass, seq, Len(seq))
  BY <1>2, PairsAreReached DEF PassedOn, PassedAfter
<1>4. pass.low[1] \in Int /\ pass.low[1] <= 0 /\ pass.depth[0] = <<0, 0>>
  BY <1>3 DEF Passes, PassedTo
<1>5. u \in Nat
  BY <1>4
<1>6. ShadowPass(seq, u) = Shadowing!Fold(base, seq)
  BY DEF ShadowPass, FoldLeft, MapThenFoldSet, Max, Shadowing!Fold, Shadowing!FoldLeft,
         Shadowing!MapThenFoldSet, Shadowing!Max
<1>7. base \in Shadowed(pass, u, 0)
  <2> HIDE DEF u
  <2>1. [k \in 1 .. u |-> Unknown] \in Seq(Symbols) /\ Len([k \in 1 .. u |-> Unknown]) = u
    BY <1>5 DEF Symbols
  <2>2. pass.depth[0][1] = 0
    BY <1>4
  <2> QED
    BY <1>5, <2>1, <2>2 DEF Shadowed, Shadows
<1>8. \A n \in 0 .. Len(seq) : Held[n] = Shadowed(pass, u, n)
  OBVIOUS
<1> HIDE DEF base, Held
<1>9. ASSUME NEW n \in 1 .. Len(seq), NEW shadow \in Held[n - 1]
      PROVE  ShadowOne(shadow, seq[n]) \in Held[n]
  <2>1. n - 1 \in 0 .. Len(seq) /\ n \in 0 .. Len(seq)
    BY <1>1
  <2> QED
    BY <1>3, <1>8, <2>1, ShadowOnTurn
<1>10. Shadowing!Fold(base, seq) \in Held[Len(seq)]
  BY <1>1, <1>7, <1>8, <1>9, Shadowing!FoldHolds
<1>11. ShadowPass(seq, u).ok
  BY <1>1, <1>6, <1>8, <1>10 DEF Shadowed
<1> QED
  BY <1>3, <1>11 DEF Accepted, pass

-----------------------------------------------------------------------------
(***************************************************************************)
(* A piece of a trace without jumps is cut into segments without a gap.    *)
(***************************************************************************)
\* Segments that make up the first n instructions, one right behind the other.
Tiled(seq, segments, n) ==
  \E off :
    /\ off[0] = 0 /\ off[Len(segments)] = n /\ \A k \in 0 .. Len(segments) : off[k] \in 0 .. n
    /\ \A k \in 1 .. Len(segments) :
         /\ off[k] = off[k - 1] + Len(segments[k])
         /\ segments[k] # <<>> /\ Ends(seq, segments[k], off[k])

LEMMA NothingIsTiled ==
  ASSUME NEW seq
  PROVE  Tiled(seq, <<>>, 0 - Len(<<>>))
<1> DEFINE off == [k \in 0 .. 0 |-> 0]
<1>1. off[0] = 0 /\ Len(<<>>) = 0 /\ 1 .. 0 = {} /\ 0 - 0 = 0 /\ \A k \in 0 .. 0 : off[k] \in 0 .. 0
  OBVIOUS
<1> HIDE DEF off
<1> QED
  BY <1>1 DEF Tiled

LEMMA OneMoreTile ==
  ASSUME NEW seq, NEW segments \in Pieces, NEW n \in Nat, NEW piece \in Seq(Known),
         Ends(seq, piece, n), Tiled(seq, segments, n - Len(piece)), piece # <<>>
  PROVE  Tiled(seq, Append(segments, piece), n)
<1> DEFINE N == Len(segments)
           m == n - Len(piece)
           more == Append(segments, piece)
<1>1. PICK off :
        /\ off[0] = 0 /\ off[N] = m /\ \A k \in 0 .. N : off[k] \in 0 .. m
        /\ \A k \in 1 .. N :
             /\ off[k] = off[k - 1] + Len(segments[k])
             /\ segments[k] # <<>> /\ Ends(seq, segments[k], off[k])
  BY DEF Tiled
<1> DEFINE Off == [k \in 0 .. N + 1 |-> IF k = N + 1 THEN n ELSE off[k]]
<1>2. N \in Nat /\ Len(more) = N + 1 /\ more[N + 1] = piece
      /\ \A k \in 1 .. N : more[k] = segments[k]
  BY DEF Pieces
<1>3. Len(piece) \in Nat /\ m \in Nat /\ n = m + Len(piece)
  BY DEF Ends
<1>4. Off[N + 1] = n /\ \A k \in 0 .. N : Off[k] = off[k]
  BY <1>2
<1>5. Off[0] = 0
  BY <1>1, <1>2, <1>4
<1> HIDE DEF Off, more, m, N
<1>6. ASSUME NEW k \in 1 .. N + 1
      PROVE  /\ Off[k] = Off[k - 1] + Len(more[k])
             /\ more[k] # <<>> /\ Ends(seq, more[k], Off[k])
  <2>1. CASE k = N + 1
    <3>1. k - 1 = N /\ N \in 0 .. N
      BY <1>2, <2>1
    <3>2. Off[k - 1] = m /\ Off[k] = n /\ more[k] = piece
      <4>1. Off[N] = m
        BY <1>1, <1>4, <3>1
      <4> QED
        BY <1>2, <1>4, <2>1, <3>1, <4>1, Zenon
    <3> QED
      BY <1>3, <3>2
  <2>2. CASE k \in 1 .. N
    <3>1. k \in 0 .. N /\ k - 1 \in 0 .. N
      BY <1>2, <2>2
    <3>2. Off[k] = off[k] /\ Off[k - 1] = off[k - 1] /\ more[k] = segments[k]
      BY <1>2, <1>4, <2>2, <3>1
    <3> QED
      BY <1>1, <2>2, <3>2
  <2> QED
    BY <1>2, <2>1, <2>2
<1>7. ASSUME NEW k \in 0 .. N + 1
      PROVE  Off[k] \in 0 .. n
  <2>1. k \in 0 .. N \/ k = N + 1
    BY <1>2
  <2> QED
    BY <1>1, <1>3, <1>4, <2>1
<1>8. Tiled(seq, more, n)
  BY <1>2, <1>4, <1>5, <1>6, <1>7 DEF Tiled
<1> QED
  BY <1>8 DEF more

\* finalize_segment drops no piece that has no jump.
LEMMA KeptTile ==
  ASSUME NEW seq, NEW segments \in Pieces, NEW n \in Nat, NEW piece \in Branchless,
         Ends(seq, piece, n), Tiled(seq, segments, n - Len(piece))
  PROVE  segments \o Kept(piece) \in Pieces /\ Tiled(seq, segments \o Kept(piece), n)
<1>1. piece \in Seq(Known)
  BY DEF Branchless
<1>2. CASE piece = <<>>
  <2>1. segments \o Kept(piece) = segments
    BY <1>2 DEF Kept, Pieces
  <2>2. n - Len(piece) = n
    BY <1>2
  <2> QED
    BY <2>1, <2>2
<1>3. CASE piece # <<>>
  <2>1. Accepted(piece)
    BY BranchlessIsAccepted
  <2>2. segments \o Kept(piece) = Append(segments, piece)
    BY <1>3, <2>1 DEF Kept, Pieces
  <2>3. Append(segments, piece) \in Pieces
    BY <1>1 DEF Pieces
  <2> QED
    BY <1>1, <1>3, <2>2, <2>3, OneMoreTile
<1> QED
  BY <1>2, <1>3

\* What build_safe_segments has behind n instructions, none of them a jump.
TiledTo(seq, n) ==
  { cutting \in [segments : Pieces, piece : Branchless, depth : Int] :
      /\ Ends(seq, cutting.piece, n)
      /\ Tiled(seq, cutting.segments, n - Len(cutting.piece)) }

\* ... and behind one without a contract.
TiledBefore(seq, n) ==
  { cutting \in [segments : Pieces, piece : {<<>>}, depth : Int] :
      Tiled(seq, cutting.segments, n - 1) }

LEMMA BranchlessMore ==
  ASSUME NEW piece \in Branchless, NEW ins \in Known, ins.op \notin {"Jump", "JZ"}
  PROVE  Append(piece, ins) \in Branchless
<1> DEFINE more == Append(piece, ins)
<1>1. piece \in Seq(Known) /\ Len(piece) \in Nat /\ \A i \in 1 .. Len(piece) : piece[i].op \notin {"Jump", "JZ"}
  BY DEF Branchless
<1>2. more \in Seq(Known) /\ DOMAIN more = 1 .. Len(piece) + 1 /\ more[Len(piece) + 1] = ins
      /\ \A i \in 1 .. Len(piece) : more[i] = piece[i]
  BY <1>1
<1>3. ASSUME NEW i \in DOMAIN more
      PROVE  more[i].op \notin {"Jump", "JZ"}
  <2>1. i \in 1 .. Len(piece) \/ i = Len(piece) + 1
    BY <1>1, <1>2
  <2> HIDE DEF more
  <2> QED
    BY <1>1, <1>2, <2>1
<1> QED
  BY <1>2, <1>3 DEF Branchless

LEMMA TileTurn ==
  ASSUME NEW seq \in Seq(Executed), NEW n \in 1 .. Len(seq), NEW c \in TiledTo(seq, n - 1),
         seq[n].op \notin {"Jump", "JZ"}
  PROVE  /\ seq[n].op \in Contracted => CutOne(c, seq[n]) \in TiledTo(seq, n)
         /\ seq[n].op \notin Contracted => CutOne(c, seq[n]) \in TiledBefore(seq, n)
<1> DEFINE ins == seq[n]
           out == CutOne(c, ins)
           kept == c.segments \o Kept(c.piece)
<1>1. /\ c.segments \in Pieces /\ c.piece \in Branchless /\ c.depth \in Int
      /\ Ends(seq, c.piece, n - 1) /\ Tiled(seq, c.segments, (n - 1) - Len(c.piece))
  BY DEF TiledTo
<1>2. n - 1 \in Nat /\ n \in Nat /\ n > 0 /\ ins \in Executed /\ c.piece \in Seq(Known) /\ Len(c.piece) \in Nat
  BY <1>1 DEF Branchless
<1>3. kept \in Pieces /\ Tiled(seq, kept, n - 1)
  BY <1>1, <1>2, KeptTile
<1>4. <<>> \in Branchless
  BY DEF Branchless
<1>5. ASSUME ins.op \notin Contracted
      PROVE  out \in TiledBefore(seq, n)
  <2>1. out = [segments |-> kept, piece |-> <<>>, depth |-> 0]
    BY <1>5 DEF CutOne
  <2> HIDE DEF kept
  <2> QED
    BY <1>3, <2>1 DEF TiledBefore
<1>6. ASSUME ins.op \in Contracted
      PROVE  out \in TiledTo(seq, n)
  <2>1. ins \in Known /\ Gain(ins) \in Int
    BY <1>2, <1>6, GainType DEF Known
  <2>2. CASE CutBefore(ins, c)
    <3>1. out = [segments |-> kept, piece |-> Append(<<>>, ins), depth |-> 0 + Gain(ins)]
      BY <1>6, <2>2 DEF CutOne
    <3>2. Ends(seq, Append(<<>>, ins), n)
      BY <1>2, <2>1, EndsNothing, EndsMore
    <3>3. Len(Append(<<>>, ins)) = 1 /\ 0 + Gain(ins) \in Int
      BY <2>1
    <3>4. Append(<<>>, ins) \in Branchless
      BY <1>4, <2>1, BranchlessMore
    <3> HIDE DEF kept, ins, out
    <3> QED
      BY <1>3, <3>1, <3>2, <3>3, <3>4 DEF TiledTo
  <2>3. CASE ~CutBefore(ins, c)
    <3>1. out = [segments |-> c.segments, piece |-> Append(c.piece, ins),
                 depth |-> c.depth + Gain(ins)]
      BY <1>6, <2>3 DEF CutOne
    <3>2. Ends(seq, Append(c.piece, ins), n)
      BY <1>1, <1>2, <2>1, EndsMore
    <3>3. n - Len(Append(c.piece, ins)) = (n - 1) - Len(c.piece) /\ c.depth + Gain(ins) \in Int
      BY <1>1, <1>2, <2>1
    <3>4. Append(c.piece, ins) \in Branchless
      BY <1>1, <2>1, BranchlessMore
    <3> HIDE DEF ins, out
    <3> QED
      BY <1>1, <3>1, <3>2, <3>3, <3>4 DEF TiledTo
  <2> QED
    BY <2>2, <2>3
<1> QED
  BY <1>5, <1>6

\* build_safe_segments: when no instruction is a jump, and none but the last
\* has no contract, the segments follow on each other from the first
\* instruction on.
THEOREM SegmentsAreTiled ==
  ASSUME NEW seq \in Seq(Executed),
         \A i \in 1 .. Len(seq) : /\ seq[i].op \notin {"Jump", "JZ"}
                                  /\ i < Len(seq) => seq[i].op \in Contracted
  PROVE  /\ SafeSegments(seq) \in Pieces
         /\ \E n \in 0 .. Len(seq) : Tiled(seq, SafeSegments(seq), n)
<1> DEFINE base == [segments |-> <<>>, piece |-> <<>>, depth |-> 0]
           last == Cutting!Fold(base, seq)
           Held == [n \in 0 .. Len(seq) |->
                      IF n = Len(seq) /\ n > 0 THEN TiledTo(seq, n) \cup TiledBefore(seq, n)
                                               ELSE TiledTo(seq, n)]
<1>1. SafeSegments(seq) = last.segments \o Kept(last.piece)
  BY DEF SafeSegments, FoldLeft, MapThenFoldSet, Max, Cutting!Fold, Cutting!FoldLeft,
         Cutting!MapThenFoldSet, Cutting!Max
<1>2. Len(seq) \in Nat
  OBVIOUS
<1>3. base \in Held[0]
  <2>1. <<>> \in Branchless
    <3> HIDE DEF Held, base, last
    <3> QED
      BY DEF Branchless
  <2>2. <<>> \in Pieces
    BY EmptySeq DEF Pieces
  <2>3. base \in TiledTo(seq, 0)
    BY <2>1, <2>2, EndsNothing, NothingIsTiled DEF TiledTo
  <2> QED
    BY <1>2, <2>3
<1>4. ASSUME NEW n \in 1 .. Len(seq), NEW c \in Held[n - 1]
      PROVE  CutOne(c, seq[n]) \in Held[n]
  <2>1. n - 1 \in 0 .. Len(seq) /\ n - 1 # Len(seq) /\ n > 0 /\ n \in 0 .. Len(seq)
    BY <1>2
  <2>2. c \in TiledTo(seq, n - 1)
    BY <2>1
  <2>3. seq[n].op \in Contracted => CutOne(c, seq[n]) \in TiledTo(seq, n)
    BY <2>2, TileTurn
  <2>4. seq[n].op \notin Contracted => CutOne(c, seq[n]) \in TiledBefore(seq, n)
    BY <2>2, TileTurn
  <2>5. n # Len(seq) => seq[n].op \in Contracted
    BY <1>2
  <2> QED
    BY <2>1, <2>3, <2>4, <2>5
<1>5. last \in Held[Len(seq)]
  <2> HIDE DEF Held, base, last
  <2> QED
    BY <1>3, <1>4, Cutting!FoldHolds DEF last
<1>6. last \in TiledTo(seq, Len(seq)) \/ (Len(seq) > 0 /\ last \in TiledBefore(seq, Len(seq)))
  BY <1>2, <1>5
<1> HIDE DEF last, Held
<1>7. CASE last \in TiledTo(seq, Len(seq))
  <2>1. last.segments \in Pieces /\ last.piece \in Branchless /\ Ends(seq, last.piece, Len(seq))
        /\ Tiled(seq, last.segments, Len(seq) - Len(last.piece))
    BY <1>7 DEF TiledTo
  <2> QED
    BY <1>1, <1>2, <2>1, KeptTile
<1>8. CASE Len(seq) > 0 /\ last \in TiledBefore(seq, Len(seq))
  <2>1. last.segments \in Pieces /\ last.piece = <<>> /\ Tiled(seq, last.segments, Len(seq) - 1)
    BY <1>8 DEF TiledBefore
  <2>2. last.segments \o Kept(last.piece) = last.segments
    BY <2>1 DEF Kept, Pieces
  <2>3. Len(seq) - 1 \in 0 .. Len(seq)
    BY <1>2, <1>8
  <2> QED
    BY <1>1, <2>1, <2>2, <2>3
<1> QED
  BY <1>6, <1>7, <1>8

=============================================================================
