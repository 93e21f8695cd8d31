----------------------------- MODULE FoldProofs -----------------------------
(***************************************************************************)
(* Induction, and what a left fold is: the two facts behind every proof    *)
(* about a loop that Contract and Optimizer write as a fold.  The folded   *)
(* operator is a CONSTANT here, so that a module which instantiates this   *)
(* one for an operator of its own has the theorem for that operator.       *)
(***************************************************************************)
EXTENDS Integers, SequencesExt, WellFoundedInduction, TLAPS

CONSTANT op(_, _)

Fold(base, seq) == FoldLeft(op, base, seq)

-----------------------------------------------------------------------------
LEMMA LessIsWellFounded ==
  IsWellFoundedOn({p \in Nat \X Nat : p[1] < p[2]}, Nat)
  BY NatLessThanWellFounded DEF OpToRel

LEMMA LeastElement ==
  ASSUME NEW S \in SUBSET Nat, S # {}
  PROVE  \E n \in S : \A k \in S : n <= k
<1> DEFINE R == {p \in Nat \X Nat : p[1] < p[2]}
<1>1. PICK n \in S : \A k \in S : <<k, n>> \notin R
  <2> HIDE DEF R
  <2> QED
    BY LessIsWellFounded, WFMin DEF R
<1>2. ASSUME NEW k \in S PROVE n <= k
  <2>1. k \in Nat /\ n \in Nat
    OBVIOUS
  <2>2. k < n => <<k, n>> \in R
    BY <2>1
  <2> QED
    BY <1>1, <2>1, <2>2
<1> QED
  BY <1>2

\* Induction up to N, for the set of the numbers that have a property.
LEMMA UpTo ==
  ASSUME NEW N \in Nat, NEW S, 0 \in S,
         \A n \in 0 .. (N - 1) : n \in S => n + 1 \in S
  PROVE  0 .. N \subseteq S
<1> DEFINE Rest == (0 .. N) \ S
<1>1. SUFFICES ASSUME Rest # {} PROVE FALSE
  OBVIOUS
<1>2. PICK n \in Rest : \A k \in Rest : n <= k
  <2>1. Rest \in SUBSET Nat
    OBVIOUS
  <2> HIDE DEF Rest
  <2> QED
    BY <1>1, <2>1, LeastElement
<1>3. n - 1 \in 0 .. (N - 1) /\ n - 1 \notin Rest
  BY <1>2
<1> QED
  BY <1>2, <1>3

-----------------------------------------------------------------------------
LEMMA MaxIsLast ==
  ASSUME NEW n \in Nat, NEW S \in SUBSET (1 .. n), n \in S
  PROVE  Max(S) = n
<1>1. \A x \in S : (\A y \in S : x >= y) <=> x = n
  OBVIOUS
<1> QED
  BY <1>1 DEF Max

\* f is the function that the fold of the first n elements is defined by: it
\* is given sets of positions, and takes the last of a set first.
Folding(f, base, seq, n) ==
  [S \in SUBSET (1 .. n) |->
     IF S = {} THEN base ELSE op(f[S \ {Max(S)}], seq[Max(S)])]

LEMMA FoldingExists ==
  ASSUME NEW base, NEW seq, NEW N \in Nat
  PROVE  \E f : f = Folding(f, base, seq, N)
<1> DEFINE Good == {n \in 0 .. N : \E f : f = Folding(f, base, seq, n)}
<1>1. 0 \in Good
  <2> DEFINE f == [S \in SUBSET (1 .. 0) |-> base]
  <2>1. f = Folding(f, base, seq, 0)
    BY DEF Folding
  <2> QED
    BY <2>1
<1>2. ASSUME NEW m \in 0 .. (N - 1), m \in Good PROVE m + 1 \in Good
  <2> DEFINE n == m + 1
  <2>1. PICK f : f = Folding(f, base, seq, m)
    BY <1>2
  <2> DEFINE g == [S \in SUBSET (1 .. n) |->
                     IF n \in S THEN op(f[S \ {n}], seq[n]) ELSE f[S]]
  <2>2. ASSUME NEW S \in SUBSET (1 .. n)
        PROVE  g[S] = IF S = {} THEN base ELSE op(g[S \ {Max(S)}], seq[Max(S)])
    <3>1. CASE n \in S
      <4>1. Max(S) = n
        BY MaxIsLast, <3>1
      <4>2. g[S \ {n}] = f[S \ {n}]
        BY <3>1
      <4> QED
        BY <4>1, <4>2, <3>1
    <3>2. CASE n \notin S
      <4>1. S \in SUBSET (1 .. m)
        BY <3>2
      <4>2. f[S] = IF S = {} THEN base ELSE op(f[S \ {Max(S)}], seq[Max(S)])
        BY <4>1, <2>1 DEF Folding
      <4>3. g[S] = f[S] /\ g[S \ {Max(S)}] = f[S \ {Max(S)}]
        BY <3>2
      <4> QED
        BY <4>2, <4>3
    <3> QED
      BY <3>1, <3>2
  <2>3. g = Folding(g, base, seq, n)
    BY <2>2 DEF Folding
  <2> QED
    BY <2>3
<1>3. N \in Good
  <2> HIDE DEF Good
  <2> QED
    BY <1>1, <1>2, UpTo
<1> QED
  BY <1>3

\* A left fold goes through the elements in their order: r[n] is what it has
\* after the first n.
LEMMA FoldRuns ==
  ASSUME NEW T, NEW seq \in Seq(T), NEW base
  PROVE  \E r : /\ r[0] = base
                /\ \A n \in 1 .. Len(seq) : r[n] = op(r[n - 1], seq[n])
                /\ Fold(base, seq) = r[Len(seq)]
<1> DEFINE N == Len(seq)
           F == CHOOSE f : f = Folding(f, base, seq, N)
           r == [n \in 0 .. N |-> F[1 .. n]]
<1>1. DOMAIN seq = 1 .. N
  OBVIOUS
<1>2. Fold(base, seq) = F[1 .. N]
  BY <1>1 DEF Fold, FoldLeft, MapThenFoldSet, Folding
<1>3. F = Folding(F, base, seq, N)
  BY FoldingExists
<1>4. ASSUME NEW n \in 0 .. N
      PROVE  F[1 .. n] = IF n = 0 THEN base ELSE op(F[1 .. (n - 1)], seq[n])
  <2>1. 1 .. n \in SUBSET (1 .. N)
    OBVIOUS
  <2>2. n # 0 => /\ 1 .. n # {} /\ Max(1 .. n) = n
                 /\ (1 .. n) \ {n} = 1 .. (n - 1)
    BY MaxIsLast
  <2>3. n = 0 => 1 .. n = {}
    OBVIOUS
  <2> HIDE DEF F
  <2> QED
    BY <1>3, <2>1, <2>2, <2>3 DEF Folding
<1>5. r[0] = base /\ \A n \in 1 .. N : r[n] = op(r[n - 1], seq[n])
  <2> HIDE DEF F
  <2> QED
    BY <1>4
<1>6. Fold(base, seq) = r[Len(seq)]
  BY <1>2
<1> HIDE DEF r
<1> QED
  BY <1>5, <1>6

\* What every step keeps holds at the end: Held[n] is the set of what may be
\* had after n elements.
LEMMA FoldHolds ==
  ASSUME NEW T, NEW seq \in Seq(T), NEW base, NEW Held,
         base \in Held[0],
         \A n \in 1 .. Len(seq) : \A x \in Held[n - 1] : op(x, seq[n]) \in Held[n]
  PROVE  Fold(base, seq) \in Held[Len(seq)]
<1>1. PICK r : /\ r[0] = base
               /\ \A n \in 1 .. Len(seq) : r[n] = op(r[n - 1], seq[n])
               /\ Fold(base, seq) = r[Len(seq)]
  BY FoldRuns
<1> DEFINE Good == {n \in 0 .. Len(seq) : r[n] \in Held[n]}
<1>2. 0 \in Good
  BY <1>1
<1>3. ASSUME NEW n \in 0 .. (Len(seq) - 1), n \in Good PROVE n + 1 \in Good
  <2>1. n + 1 \in 1 .. Len(seq) /\ (n + 1) - 1 = n /\ n + 1 \in 0 .. Len(seq)
    OBVIOUS
  <2>2. r[n + 1] = op(r[n], seq[n + 1])
    BY <1>1, <2>1
  <2>3. op(r[n], seq[n + 1]) \in Held[n + 1]
    BY <1>3, <2>1
  <2> QED
    BY <2>1, <2>2, <2>3
<1>4. Len(seq) \in Good
  <2>1. Len(seq) \in Nat
    OBVIOUS
  <2>2. \A n \in 0 .. (Len(seq) - 1) : n \in Good => n + 1 \in Good
    BY <1>3
  <2> HIDE DEF Good
  <2>3. 0 .. Len(seq) \subseteq Good
    BY <1>2, <2>1, <2>2, UpTo
  <2> QED
    BY <2>1, <2>3
<1> QED
  BY <1>1, <1>4

\* The same of a set that does not depend on how far the fold is.
LEMMA FoldStaysIn ==
  ASSUME NEW T, NEW seq \in Seq(T), NEW M, NEW base \in M,
         \A x \in M, e \in T : op(x, e) \in M
  PROVE  Fold(base, seq) \in M
<1> DEFINE Held == [n \in 0 .. Len(seq) |-> M]
<1>1. \A n \in 0 .. Len(seq) : Held[n] = M
  OBVIOUS
<1>2. \A n \in 1 .. Len(seq) : n - 1 \in 0 .. Len(seq) /\ n \in 0 .. Len(seq) /\ seq[n] \in T
  OBVIOUS
<1> HIDE DEF Held
<1>3. \A n \in 1 .. Len(seq) : \A x \in Held[n - 1] : op(x, seq[n]) \in Held[n]
  BY <1>1, <1>2
<1>4. base \in Held[0] /\ Held[Len(seq)] = M
  BY <1>1
<1> QED
  BY <1>3, <1>4, FoldHolds

\* One element more is one step more.
LEMMA FoldMore ==
  ASSUME NEW T, NEW seq \in Seq(T), NEW base, NEW e \in T
  PROVE  Fold(base, Append(seq, e)) = op(Fold(base, seq), e)
<1> DEFINE N == Len(seq)
           more == Append(seq, e)
<1>1. N \in Nat /\ more \in Seq(T) /\ Len(more) = N + 1 /\ more[N + 1] = e
      /\ \A n \in 1 .. N : more[n] = seq[n]
  OBVIOUS
<1>2. PICK r : /\ r[0] = base
               /\ \A n \in 1 .. N : r[n] = op(r[n - 1], seq[n])
               /\ Fold(base, seq) = r[N]
  BY FoldRuns
<1>3. PICK q : /\ q[0] = base
               /\ \A n \in 1 .. Len(more) : q[n] = op(q[n - 1], more[n])
               /\ Fold(base, more) = q[Len(more)]
  <2> HIDE DEF more
  <2> QED
    BY <1>1, FoldRuns
<1> HIDE DEF more, N
<1> DEFINE Good == {n \in 0 .. N : q[n] = r[n]}
<1>4. 0 \in Good
  BY <1>1, <1>2, <1>3
<1>5. ASSUME NEW n \in 0 .. (N - 1), n \in Good PROVE n + 1 \in Good
  <2>1. n + 1 \in 1 .. N /\ n + 1 \in 1 .. Len(more) /\ (n + 1) - 1 = n /\ n + 1 \in 0 .. N
    BY <1>1
  <2>2. q[n] = r[n] /\ more[n + 1] = seq[n + 1]
    BY <1>1, <1>5, <2>1
  <2>3. q[n + 1] = op(q[n], more[n + 1]) /\ r[n + 1] = op(r[n], seq[n + 1])
    BY <1>2, <1>3, <2>1
  <2> QED
    BY <2>1, <2>2, <2>3
<1>6. N \in Good
  <2>1. \A n \in 0 .. (N - 1) : n \in Good => n + 1 \in Good
    BY <1>5
  <2> HIDE DEF Good
  <2>2. 0 .. N \subseteq Good
    BY <1>1, <1>4, <2>1, UpTo
  <2> QED
    BY <1>1, <2>2
<1>7. N + 1 \in 1 .. Len(more) /\ (N + 1) - 1 = N
  BY <1>1
<1> QED
  BY <1>1, <1>2, <1>3, <1>6, <1>7 DEF more

=============================================================================
