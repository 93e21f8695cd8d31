-------------------------- MODULE OptimizerProofs --------------------------
(***************************************************************************)
(* Proofs about Optimizer and Learning.  What a trace may change is proved *)
(* once for extract_patterns, from one segment up to the whole trace, and  *)
(* every property is read off it.                                          *)
(***************************************************************************)
EXTENDS Learning, ContractProofs, FiniteSetTheorems

Seeing  == INSTANCE FoldProofs WITH op <- SeeSegment
Reading == INSTANCE FoldProofs WITH op <- ReadEvent

-----------------------------------------------------------------------------
QueueItem == [ip : Nat, ctx : Context]

OpEvent == [kind : {"Op"}, ip : Nat, ins : Executed]

Maps == UNION { [S -> Stats] : S \in SUBSET Context }

Minds == [patterns : Maps, supers : SUBSET Context, pending : Seq(QueueItem)]

(***************************************************************************)
(* What an observation may make of old.  limit says how often each         *)
(* watched sequence has been run.                                          *)
(***************************************************************************)
QueueOK(mind) ==
  /\ Len(mind.pending) <= MAX_PENDING_JIT
  /\ \A k \in DOMAIN mind.pending : mind.pending[k].ctx \in mind.supers

StrikesKept(old, known) ==
  \A ctx \in DOMAIN old.patterns :
    old.patterns[ctx].failures > 0 =>
      ctx \in DOMAIN known /\ known[ctx].failures = old.patterns[ctx].failures

\* Seeing a pattern gives it no failure.
NoneBlamed(old, known) ==
  \A ctx \in DOMAIN known :
    known[ctx].failures > 0 =>
      ctx \in DOMAIN old.patterns /\ known[ctx].failures = old.patterns[ctx].failures

StayOut(old, pending) ==
  \A ctx \in DOMAIN old.patterns :
    old.patterns[ctx].failures > MaxStrikes => Queued(pending, ctx) = Queued(old.pending, ctx)

Within(known, limit) ==
  \A ctx \in DOMAIN known :
    ctx.original_ops \in DOMAIN limit => known[ctx].score <= limit[ctx.original_ops]

Earned(supers, limit) ==
  \A ctx \in supers :
    ctx.original_ops \in DOMAIN limit => limit[ctx.original_ops] >= ScoreThreshold

Grown(old, limit) ==
  { mind \in Minds :
      /\ QueueOK(mind)
      /\ StrikesKept(old, mind.patterns) /\ NoneBlamed(old, mind.patterns)
      /\ StayOut(old, mind.pending)
      /\ Within(mind.patterns, limit) /\ Earned(mind.supers, limit) }

Limits(W) == [W -> Nat]

\* more allows ops one run more than limit, and nothing less.
OneMore(limit, more, ops) ==
  /\ \A w \in DOMAIN limit : more[w] >= limit[w]
  /\ ops \in DOMAIN limit => more[ops] >= limit[ops] + 1

-----------------------------------------------------------------------------
LEMMA WithType ==
  ASSUME NEW map \in Maps, NEW ctx \in Context, NEW stats \in Stats
  PROVE  /\ With(map, ctx, stats) \in Maps
         /\ DOMAIN With(map, ctx, stats) = DOMAIN map \cup {ctx}
         /\ With(map, ctx, stats)[ctx] = stats
         /\ \A c \in DOMAIN map : c # ctx => With(map, ctx, stats)[c] = map[c]
<1> DEFINE more == With(map, ctx, stats)
<1>1. PICK S \in SUBSET Context : map \in [S -> Stats]
  BY DEF Maps
<1>2. S \cup {ctx} \in SUBSET Context /\ more \in [S \cup {ctx} -> Stats]
  BY <1>1 DEF With
<1>3. more \in Maps
  <2> HIDE DEF more
  <2> QED
    BY <1>2 DEF Maps
<1> QED
  BY <1>1, <1>3 DEF With

LEMMA StatsOfType ==
  ASSUME NEW map \in Maps, NEW ctx
  PROVE  StatsOf(map, ctx) \in Stats
<1>1. PICK S \in SUBSET Context : map \in [S -> Stats]
  BY DEF Maps
<1>2. Unseen \in Stats
  BY DEF Unseen, Stats
<1> QED
  BY <1>1, <1>2 DEF StatsOf

LEMMA QueuedOthers ==
  ASSUME NEW queue \in Seq(QueueItem), NEW item \in QueueItem, NEW ctx, item.ctx # ctx
  PROVE  Queued(Append(queue, item), ctx) = Queued(queue, ctx)
<1> DEFINE more == Append(queue, item)
<1>1. /\ Len(queue) \in Nat /\ DOMAIN queue = 1 .. Len(queue)
      /\ DOMAIN more = 1 .. Len(queue) + 1
      /\ more[Len(queue) + 1] = item /\ \A k \in 1 .. Len(queue) : more[k] = queue[k]
  OBVIOUS
<1> HIDE DEF more
<1>2. { k \in DOMAIN more : more[k].ctx = ctx } = { k \in DOMAIN queue : queue[k].ctx = ctx }
  BY <1>1
<1>3. Queued(more, ctx) = Queued(queue, ctx)
  BY <1>2 DEF Queued
<1> QED
  BY <1>3 DEF more

LEMMA GrownWider ==
  ASSUME NEW old, NEW W, NEW limit \in Limits(W), NEW more \in Limits(W),
         \A w \in W : more[w] >= limit[w]
  PROVE  Grown(old, limit) \subseteq Grown(old, more)
<1> SUFFICES ASSUME NEW mind \in Grown(old, limit) PROVE mind \in Grown(old, more)
  OBVIOUS
<1>1. DOMAIN limit = W /\ DOMAIN more = W /\ \A w \in W : limit[w] \in Nat /\ more[w] \in Nat
  BY DEF Limits
<1>2. mind \in Minds
  BY DEF Grown
<1>3. ASSUME NEW ctx \in DOMAIN mind.patterns, ctx.original_ops \in W
      PROVE  mind.patterns[ctx].score <= more[ctx.original_ops]
  <2>1. PICK S \in SUBSET Context : mind.patterns \in [S -> Stats]
    BY <1>2 DEF Minds, Maps
  <2>2. mind.patterns[ctx].score \in Int
    BY <2>1 DEF Stats
  <2>3. mind.patterns[ctx].score <= limit[ctx.original_ops]
    BY <1>1, <1>3 DEF Grown, Within
  <2>4. limit[ctx.original_ops] \in Nat /\ more[ctx.original_ops] \in Nat
        /\ more[ctx.original_ops] >= limit[ctx.original_ops]
    BY <1>1, <1>3
  <2> QED
    BY <2>2, <2>3, <2>4
<1>4. ASSUME NEW ctx \in mind.supers, ctx.original_ops \in W
      PROVE  more[ctx.original_ops] >= ScoreThreshold
  <2>1. limit[ctx.original_ops] >= ScoreThreshold
    BY <1>1, <1>4 DEF Grown, Earned
  <2>2. limit[ctx.original_ops] \in Nat /\ more[ctx.original_ops] \in Nat
        /\ more[ctx.original_ops] >= limit[ctx.original_ops]
    BY <1>1, <1>4
  <2> QED
    BY <2>1, <2>2, LimitAssumption
<1> QED
  BY <1>1, <1>2, <1>3, <1>4 DEF Grown, Within, Earned

\* One segment.
LEMMA SeeKeeps ==
  ASSUME NEW old \in Minds, NEW W, NEW limit \in Limits(W), NEW more \in Limits(W),
         NEW item \in QueueItem, OneMore(limit, more, item.ctx.original_ops),
         NEW mind \in Grown(old, limit)
  PROVE  See(mind, item) \in Grown(old, more)
<1> DEFINE ctx == item.ctx
           stats == StatsOf(mind.patterns, ctx)
           score == stats.score + 1
           due == score >= ScoreThreshold
           scored == [stats EXCEPT !.score = score]
           out == See(mind, item)
<1>1. ctx \in Context /\ mind \in Minds /\ mind.patterns \in Maps /\ mind.supers \in SUBSET Context
      /\ mind.pending \in Seq(QueueItem)
  BY DEF QueueItem, Grown, Minds
<1>2. stats \in Stats
  BY <1>1, StatsOfType
<1>3. stats.failures \in Nat /\ stats.score \in Int
  BY <1>2 DEF Stats
<1>4. scored \in Stats /\ scored.score = score /\ scored.failures = stats.failures
  BY <1>2 DEF Stats
<1>5. DOMAIN limit = W /\ DOMAIN more = W /\ (\A w \in W : limit[w] \in Nat /\ more[w] \in Nat)
      /\ \A w \in W : more[w] >= limit[w]
  BY DEF Limits, OneMore
<1>6. mind \in Grown(old, more)
  BY <1>5, GrownWider
<1> SUFFICES out \in Grown(old, more)
  OBVIOUS
<1>7. CASE stats.failures > MaxStrikes
  BY <1>6, <1>7 DEF See
<1>8. CASE ~(stats.failures > MaxStrikes)
  <2> DEFINE known == With(mind.patterns, ctx, scored)
             supers == IF due THEN mind.supers \cup {ctx} ELSE mind.supers
             pending == IF due /\ Len(mind.pending) < MAX_PENDING_JIT
                        THEN Append(mind.pending, item) ELSE mind.pending
  <2>1. out = [patterns |-> known, supers |-> supers, pending |-> pending]
    BY <1>8 DEF See
  <2>2. /\ known \in Maps /\ DOMAIN known = DOMAIN mind.patterns \cup {ctx}
        /\ known[ctx] = scored
        /\ \A c \in DOMAIN mind.patterns : c # ctx => known[c] = mind.patterns[c]
    <3> HIDE DEF scored, stats, ctx
    <3> QED
      BY <1>1, <1>4, WithType
  <2>3. ctx \in DOMAIN mind.patterns => stats = mind.patterns[ctx]
    BY DEF StatsOf
  <2>4. supers \in SUBSET Context /\ pending \in Seq(QueueItem)
    BY <1>1
  <2>5. [patterns |-> known, supers |-> supers, pending |-> pending] \in Minds
    BY <2>2, <2>4 DEF Minds
  <2>6. QueueOK([patterns |-> known, supers |-> supers, pending |-> pending])
    <3>1. Len(mind.pending) <= MAX_PENDING_JIT
          /\ \A k \in DOMAIN mind.pending : mind.pending[k].ctx \in mind.supers
      BY DEF Grown, QueueOK
    <3>2. Len(mind.pending) \in Nat /\ MAX_PENDING_JIT \in Nat
      BY <1>1, LimitAssumption
    <3>3. Len(pending) <= MAX_PENDING_JIT
      BY <1>1, <3>1, <3>2
    <3>4. \A k \in DOMAIN pending : pending[k].ctx \in supers
      <4>1. CASE due /\ Len(mind.pending) < MAX_PENDING_JIT
        <5>1. /\ DOMAIN pending = 1 .. Len(mind.pending) + 1
              /\ pending[Len(mind.pending) + 1] = item
              /\ \A k \in 1 .. Len(mind.pending) : pending[k] = mind.pending[k] /\ k \in DOMAIN mind.pending
          BY <1>1, <4>1
        <5> HIDE DEF pending
        <5> QED
          BY <3>1, <3>2, <4>1, <5>1
      <4>2. CASE ~(due /\ Len(mind.pending) < MAX_PENDING_JIT)
        BY <3>1, <4>2
      <4> QED
        BY <4>1, <4>2
    <3> HIDE DEF known, supers, pending
    <3> QED
      BY <3>3, <3>4 DEF QueueOK
  <2>7. StrikesKept(old, known)
    <3>1. StrikesKept(old, mind.patterns)
      BY DEF Grown
    <3> HIDE DEF known, scored, stats, ctx
    <3> QED
      BY <1>4, <2>2, <2>3, <3>1 DEF StrikesKept
  <2>8. StayOut(old, pending)
    <3> SUFFICES ASSUME NEW c \in DOMAIN old.patterns, old.patterns[c].failures > MaxStrikes
                 PROVE  Queued(pending, c) = Queued(old.pending, c)
      BY DEF StayOut
    <3>1. Queued(mind.pending, c) = Queued(old.pending, c)
      BY DEF Grown, StayOut
    <3>2. CASE c = ctx /\ old.patterns[c].failures > 0
      <4>1. c \in DOMAIN mind.patterns /\ mind.patterns[c].failures = old.patterns[c].failures
        BY <3>2 DEF Grown, StrikesKept
      <4> QED
        BY <1>8, <2>3, <3>2, <4>1
    <3>3. CASE c # ctx
      <4>1. Queued(Append(mind.pending, item), c) = Queued(mind.pending, c)
        BY <1>1, <3>3, QueuedOthers
      <4> QED
        BY <3>1, <4>1
    <3>4. old.patterns[c].failures > 0
      <4>1. PICK S \in SUBSET Context : old.patterns \in [S -> Stats]
        BY DEF Minds, Maps
      <4>2. old.patterns[c].failures \in Nat
        BY <4>1 DEF Stats
      <4> QED
        BY <4>2, LimitAssumption
    <3> QED
      BY <3>2, <3>3, <3>4
  <2>9. Within(known, more)
    <3> SUFFICES ASSUME NEW c \in DOMAIN known, c.original_ops \in W
                 PROVE  known[c].score <= more[c.original_ops]
      BY <1>5 DEF Within
    <3>1. CASE c = ctx
      <4>1. limit[c.original_ops] \in Nat /\ more[c.original_ops] \in Nat
            /\ more[c.original_ops] >= limit[c.original_ops] + 1
        BY <1>5, <3>1 DEF OneMore
      <4>2. stats.score <= limit[c.original_ops]
        <5>1. CASE ctx \in DOMAIN mind.patterns
          BY <1>5, <2>3, <3>1, <5>1 DEF Grown, Within
        <5>2. CASE ctx \notin DOMAIN mind.patterns
          <6>1. stats.score = 0
            BY <5>2 DEF StatsOf, Unseen
          <6> QED
            BY <4>1, <6>1
        <5> QED
          BY <5>1, <5>2
      <4> QED
        <5>1. known[c].score = stats.score + 1
          BY <1>4, <2>2, <3>1
        <5> HIDE DEF known, stats
        <5> QED
          BY <1>3, <4>1, <4>2, <5>1
    <3>2. CASE c # ctx
      <4>1. c \in DOMAIN mind.patterns /\ known[c] = mind.patterns[c]
        BY <2>2, <3>2
      <4>2. mind.patterns[c].score <= more[c.original_ops]
        BY <1>5, <1>6, <4>1 DEF Grown, Within
      <4> QED
        BY <4>1, <4>2
    <3> QED
      BY <3>1, <3>2
  <2>10. Earned(supers, more)
    <3> SUFFICES ASSUME NEW c \in supers, c.original_ops \in W
                 PROVE  more[c.original_ops] >= ScoreThreshold
      BY <1>5 DEF Earned
    <3>1. CASE c \in mind.supers
      BY <1>5, <1>6, <3>1 DEF Grown, Earned
    <3>2. CASE c \notin mind.supers
      <4>1. c = ctx /\ due
        BY <3>2
      <4>2. ctx \in DOMAIN known /\ known[ctx].score = score
        BY <1>4, <2>2
      <4>3. score <= more[c.original_ops]
        BY <1>5, <2>9, <4>1, <4>2 DEF Within
      <4>4. more[c.original_ops] \in Nat /\ score \in Int /\ ScoreThreshold \in Nat
        BY <1>3, <1>5, LimitAssumption
      <4> QED
        BY <4>1, <4>3, <4>4
    <3> QED
      BY <3>1, <3>2
  <2>11. NoneBlamed(old, known)
    <3>1. NoneBlamed(old, mind.patterns)
      BY DEF Grown
    <3>2. ctx \notin DOMAIN mind.patterns => stats.failures = 0
      BY DEF StatsOf, Unseen
    <3> HIDE DEF known, scored, stats, ctx
    <3> QED
      BY <1>4, <2>2, <2>3, <3>1, <3>2 DEF NoneBlamed
  <2> HIDE DEF known, supers, pending, out
  <2> QED
    BY <2>1, <2>5, <2>6, <2>7, <2>8, <2>9, <2>10, <2>11 DEF Grown
<1> QED
  BY <1>7, <1>8

-----------------------------------------------------------------------------
(***************************************************************************)
(* A piece of a trace.                                                     *)
(***************************************************************************)
PlacesTo(trace, ops, m) == { i \in 1 .. m : IsPlace(trace, i, ops) }

\* How often each sequence has been run when m events of a trace are read.
Limit(W, shown, trace, m) ==
  [ops \in W |-> shown[ops] + Cardinality(PlacesTo(trace, ops, m))]

LEMMA PlacesGrow ==
  ASSUME NEW trace, NEW ops, NEW m \in Nat, NEW n \in Nat, m <= n
  PROVE  /\ Cardinality(PlacesTo(trace, ops, m)) \in Nat
         /\ Cardinality(PlacesTo(trace, ops, n)) \in Nat
         /\ Cardinality(PlacesTo(trace, ops, m)) <= Cardinality(PlacesTo(trace, ops, n))
         /\ \A i \in m + 1 .. n :
              IsPlace(trace, i, ops) =>
                Cardinality(PlacesTo(trace, ops, m)) + 1 <= Cardinality(PlacesTo(trace, ops, n))
<1> DEFINE few == PlacesTo(trace, ops, m)
           many == PlacesTo(trace, ops, n)
<1>1. IsFiniteSet(1 .. n)
  BY FS_Interval
<1>2. many \in SUBSET (1 .. n) /\ few \in SUBSET many
  BY DEF PlacesTo
<1>3. IsFiniteSet(many)
  BY <1>1, <1>2, FS_Subset
<1>4. IsFiniteSet(few) /\ Cardinality(few) <= Cardinality(many)
  BY <1>2, <1>3, FS_Subset
<1>5. Cardinality(few) \in Nat /\ Cardinality(many) \in Nat
  BY <1>3, <1>4, FS_CardinalityType
<1>6. ASSUME NEW i \in m + 1 .. n, IsPlace(trace, i, ops)
      PROVE  Cardinality(few) + 1 <= Cardinality(many)
  <2>1. i \in many /\ i \notin few
    BY <1>6 DEF PlacesTo
  <2>2. few \cup {i} \in SUBSET many
    BY <1>2, <2>1
  <2>3. Cardinality(few \cup {i}) = Cardinality(few) + 1
    BY <1>4, <2>1, FS_AddElement
  <2>4. Cardinality(few \cup {i}) <= Cardinality(many)
    BY <1>3, <2>2, FS_Subset
  <2> QED
    BY <2>3, <2>4
<1> QED
  BY <1>4, <1>5, <1>6

LEMMA LimitType ==
  ASSUME NEW W, NEW shown \in Limits(W), NEW trace, NEW m \in Nat
  PROVE  Limit(W, shown, trace, m) \in Limits(W)
<1>1. \A ops \in W : Cardinality(PlacesTo(trace, ops, m)) \in Nat
  BY PlacesGrow
<1>2. \A ops \in W : shown[ops] + Cardinality(PlacesTo(trace, ops, m)) \in Nat
  BY <1>1 DEF Limits
<1> QED
  BY <1>2 DEF Limit, Limits

LEMMA LimitGrows ==
  ASSUME NEW W, NEW shown \in Limits(W), NEW trace, NEW m \in Nat, NEW n \in Nat, m <= n
  PROVE  /\ \A w \in W : Limit(W, shown, trace, n)[w] >= Limit(W, shown, trace, m)[w]
         /\ \A i \in m + 1 .. n : \A ops :
              IsPlace(trace, i, ops) =>
                OneMore(Limit(W, shown, trace, m), Limit(W, shown, trace, n), ops)
<1>1. ASSUME NEW w \in W
      PROVE  Limit(W, shown, trace, n)[w] >= Limit(W, shown, trace, m)[w]
  <2>1. shown[w] \in Nat
    BY DEF Limits
  <2>2. /\ Cardinality(PlacesTo(trace, w, m)) \in Nat
        /\ Cardinality(PlacesTo(trace, w, n)) \in Nat
        /\ Cardinality(PlacesTo(trace, w, m)) <= Cardinality(PlacesTo(trace, w, n))
    BY PlacesGrow
  <2> QED
    BY <2>1, <2>2 DEF Limit
<1>2. ASSUME NEW i \in m + 1 .. n, NEW ops, IsPlace(trace, i, ops), ops \in W
      PROVE  Limit(W, shown, trace, n)[ops] >= Limit(W, shown, trace, m)[ops] + 1
  <2>1. shown[ops] \in Nat
    BY <1>2 DEF Limits
  <2>2. /\ Cardinality(PlacesTo(trace, ops, m)) \in Nat
        /\ Cardinality(PlacesTo(trace, ops, n)) \in Nat
        /\ Cardinality(PlacesTo(trace, ops, m)) + 1 <= Cardinality(PlacesTo(trace, ops, n))
    BY <1>2, PlacesGrow
  <2> QED
    BY <1>2, <2>1, <2>2 DEF Limit
<1>3. DOMAIN Limit(W, shown, trace, m) = W
  BY DEF Limit
<1> QED
  BY <1>1, <1>2, <1>3 DEF OneMore

LEMMA WiderSeq ==
  ASSUME NEW S, NEW T, \A x \in S : x \in T, NEW s \in Seq(S)
  PROVE  s \in Seq(T)
<1>1. Len(s) \in Nat /\ s \in [1 .. Len(s) -> S]
  OBVIOUS
<1>2. s \in [1 .. Len(s) -> T]
  BY <1>1
<1> QED
  BY <1>1, <1>2

LEMMA KnownIsContracted ==
  ASSUME NEW piece \in Seq(Known)
  PROVE  piece \in Seq([op : Contracted, data : Int])
<1>1. \A x \in Known : x \in [op : Contracted, data : Int]
  BY DEF Known, Executed
<1> QED
  BY <1>1, WiderSeq

\* The events from m + 1 on are those of piece.
StandsAt(trace, m, piece) ==
  /\ piece \in Seq(OpEvent) /\ m + Len(piece) <= Len(trace)
  /\ \A i \in 1 .. Len(piece) : trace[m + i] = piece[i]

Code(piece) == [i \in DOMAIN piece |-> piece[i].ins]

LEMMA CodeType ==
  ASSUME NEW piece \in Seq(OpEvent)
  PROVE  Code(piece) \in Seq(Executed) /\ Len(Code(piece)) = Len(piece)
<1>0. Len(piece) \in Nat /\ DOMAIN piece = 1 .. Len(piece)
      /\ \A i \in 1 .. Len(piece) : piece[i] \in OpEvent
  OBVIOUS
<1>1. \A i \in 1 .. Len(piece) : piece[i].ins \in Executed
  BY <1>0 DEF OpEvent
<1>2. Code(piece) \in [1 .. Len(piece) -> Executed]
  BY <1>0, <1>1 DEF Code
<1> QED
  BY <1>0, <1>2

LEMMA EndsIsPlace ==
  ASSUME NEW trace \in Seq(TraceEvent), NEW m \in Nat, NEW piece, StandsAt(trace, m, piece),
         NEW n \in 0 .. Len(piece), NEW seg \in Seq(Known), Ends(Code(piece), seg, n)
  PROVE  IsPlace(trace, m + n - Len(seg) + 1, seg)
<1>1. /\ Len(piece) \in Nat /\ DOMAIN piece = 1 .. Len(piece)
      /\ \A i \in 1 .. Len(piece) : piece[i] \in OpEvent
      /\ Len(trace) \in Nat /\ DOMAIN trace = 1 .. Len(trace)
      /\ Len(seg) \in Nat /\ DOMAIN seg = 1 .. Len(seg)
  BY DEF StandsAt
<1>2. m + Len(piece) <= Len(trace) /\ \A i \in 1 .. Len(piece) : trace[m + i] = piece[i]
  BY DEF StandsAt
<1>3. Len(seg) <= n /\ \A i \in 1 .. Len(seg) : seg[i] = Code(piece)[n - Len(seg) + i]
  BY DEF Ends
<1> SUFFICES ASSUME NEW k \in 1 .. Len(seg)
             PROVE  /\ m + n - Len(seg) + 1 + k - 1 \in DOMAIN trace
                    /\ trace[m + n - Len(seg) + 1 + k - 1].kind = "Op"
                    /\ trace[m + n - Len(seg) + 1 + k - 1].ins = seg[k]
  BY <1>1 DEF IsPlace
<1> DEFINE j == n - Len(seg) + k
<1>4. j \in 1 .. Len(piece) /\ m + n - Len(seg) + 1 + k - 1 = m + j
  BY <1>1, <1>3
<1>5. seg[k] = Code(piece)[j]
  BY <1>3
<1> HIDE DEF j
<1>6. trace[m + j] = piece[j] /\ Code(piece)[j] = piece[j].ins /\ piece[j].kind = "Op"
  BY <1>1, <1>2, <1>4 DEF Code, OpEvent
<1>7. m + j \in DOMAIN trace
  BY <1>1, <1>2, <1>4
<1> QED
  BY <1>4, <1>5, <1>6, <1>7

\* Where each of the segments ends.
LEMMA Stretches ==
  ASSUME NEW seq, NEW segs \in Pieces, NEW n \in Nat, Apart(seq, segs, n)
  PROVE  \E E :
           /\ E[0] = 0 /\ \A k \in 0 .. Len(segs) : E[k] \in 0 .. n
           /\ \A k \in 1 .. Len(segs) :
                /\ segs[k] \in Seq(Known) /\ Len(segs[k]) > 0
                /\ E[k - 1] + Len(segs[k]) <= E[k] /\ Ends(seq, segs[k], E[k])
<1> DEFINE K == Len(segs)
<1>1. K \in Nat /\ DOMAIN segs = 1 .. K /\ \A k \in 1 .. K : segs[k] \in Seq(Known)
  BY DEF Pieces
<1>2. PICK start :
        \A k \in DOMAIN segs :
          /\ start[k] \in 1 .. n
          /\ segs[k] # <<>>
          /\ k > 1 => start[k] >= start[k - 1] + Len(segs[k - 1])
          /\ Ends(seq, segs[k], start[k] + Len(segs[k]) - 1)
          /\ start[k] + Len(segs[k]) - 1 <= n
          /\ Accepted(segs[k])
          /\ \E d \in Int : LivesOn(segs[k], d)
  BY DEF Apart
<1> HIDE DEF K
<1>3. ASSUME NEW k \in 1 .. K PROVE Len(segs[k]) \in Nat /\ Len(segs[k]) > 0
  <2>1. segs[k] \in Seq(Known) /\ segs[k] # <<>>
    BY <1>1, <1>2
  <2> QED
    BY <2>1
<1> DEFINE E == [k \in 0 .. K |-> IF k = 0 THEN 0 ELSE start[k] + Len(segs[k]) - 1]
<1>4. E[0] = 0 /\ \A k \in 1 .. K : E[k] = start[k] + Len(segs[k]) - 1
  BY <1>1
<1> HIDE DEF E
<1>5. ASSUME NEW k \in 1 .. K
      PROVE  start[k] \in 1 .. n /\ E[k] \in 0 .. n /\ Ends(seq, segs[k], E[k])
  <2>1. /\ start[k] \in 1 .. n /\ start[k] + Len(segs[k]) - 1 <= n
        /\ Ends(seq, segs[k], start[k] + Len(segs[k]) - 1)
    BY <1>1, <1>2
  <2> QED
    BY <1>3, <1>4, <2>1
<1>6. ASSUME NEW k \in 1 .. K PROVE E[k - 1] + Len(segs[k]) <= E[k]
  <2>1. start[k] \in 1 .. n /\ E[k] = start[k] + Len(segs[k]) - 1
    BY <1>4, <1>5
  <2>2. E[k - 1] \in Int /\ E[k - 1] < start[k]
    <3>1. CASE k = 1
      BY <1>4, <2>1, <3>1
    <3>2. CASE k > 1
      <4>1. k - 1 \in 1 .. K
        BY <1>1, <3>2
      <4>2. start[k] >= start[k - 1] + Len(segs[k - 1])
        BY <1>1, <1>2, <3>2
      <4>3. /\ E[k - 1] = start[k - 1] + Len(segs[k - 1]) - 1
            /\ start[k - 1] \in 1 .. n /\ Len(segs[k - 1]) \in Nat
        BY <1>3, <1>4, <1>5, <4>1
      <4> QED
        BY <2>1, <4>2, <4>3
    <3> QED
      BY <1>1, <3>1, <3>2
  <2> QED
    BY <1>3, <2>1, <2>2
<1>7. ASSUME NEW k \in 0 .. K PROVE E[k] \in 0 .. n
  <2>1. k = 0 \/ k \in 1 .. K
    BY <1>1
  <2> QED
    BY <1>4, <1>5, <2>1
<1> QED
  BY <1>1, <1>3, <1>4, <1>5, <1>6, <1>7 DEF K

\* extract_patterns when n instructions of the piece are behind it.
Looked(old, limit, piece, word, n) ==
  [mind : Grown(old, limit), piece : {piece}, word : {word}, offset : 0 .. n]

\* A segment is one more run of its sequence, and current_offset stays inside
\* the piece.
LEMMA SegmentKeeps ==
  ASSUME NEW trace \in Seq(TraceEvent), NEW W, NEW shown \in Limits(W), NEW old \in Minds,
         NEW m \in Nat, NEW piece, StandsAt(trace, m, piece), NEW word \in Int \cup {NoWord},
         NEW n \in 0 .. Len(piece), NEW far \in 0 .. Len(piece), NEW seg \in Seq(Known),
         Len(seg) > 0, n + Len(seg) <= far, Ends(Code(piece), seg, far),
         NEW looking \in Looked(old, Limit(W, shown, trace, m + n), piece, word, n)
  PROVE  SeeSegment(looking, seg) \in Looked(old, Limit(W, shown, trace, m + far), piece, word, far)
<1> DEFINE here == m + n
           there == m + far
           item == Item(looking, seg)
           few == Limit(W, shown, trace, here)
           many == Limit(W, shown, trace, there)
<1>1. /\ looking.mind \in Grown(old, few) /\ looking.piece = piece /\ looking.word = word
      /\ looking.offset \in 0 .. n
      /\ SeeSegment(looking, seg) =
           [mind |-> See(looking.mind, item), piece |-> piece, word |-> word,
            offset |-> looking.offset + Len(seg)]
  <2>1. /\ looking.mind \in Grown(old, few) /\ looking.piece = piece /\ looking.word = word
        /\ looking.offset \in 0 .. n
    <3>1. looking \in [mind : Grown(old, few), piece : {piece}, word : {word}, offset : 0 .. n]
      BY DEF Looked
    <3> HIDE DEF few
    <3> QED
      BY <3>1
  <2> HIDE DEF item, few
  <2> QED
    BY <2>1 DEF SeeSegment, item
<1>2. Len(seg) \in Nat /\ Len(piece) \in Nat /\ piece \in Seq(OpEvent)
  BY DEF StandsAt
<1>3. looking.offset + 1 \in 1 .. Len(piece) /\ looking.offset + Len(seg) \in 0 .. far
  BY <1>1, <1>2
<1>4. item \in QueueItem /\ item.ctx.original_ops = seg
  <2>1. piece[looking.offset + 1].ip \in Nat
    <3>1. piece[looking.offset + 1] \in OpEvent
      BY <1>2, <1>3
    <3> QED
      BY <3>1 DEF OpEvent
  <2>2. seg \in Seq([op : Contracted, data : Int])
    BY KnownIsContracted
  <2> QED
    BY <1>1, <2>1, <2>2 DEF Item, QueueItem, Context
<1>5. here \in Nat /\ there \in Nat /\ here <= there /\ there - Len(seg) + 1 \in here + 1 .. there
      /\ there - Len(seg) + 1 = m + far - Len(seg) + 1
  BY <1>2
<1>6. IsPlace(trace, there - Len(seg) + 1, seg)
  BY EndsIsPlace
<1> HIDE DEF here, there, item
<1>7. OneMore(few, many, seg)
  BY <1>5, <1>6, LimitGrows
<1>8. few \in Limits(W) /\ many \in Limits(W)
  BY <1>5, LimitType
<1> HIDE DEF few, many
<1>9. See(looking.mind, item) \in Grown(old, many)
  BY <1>1, <1>4, <1>7, <1>8, SeeKeeps
<1> QED
  BY <1>1, <1>3, <1>9 DEF Looked, many, there

\* extract_patterns: its segments stand in the piece one behind the other.
LEMMA ExtractKeeps ==
  ASSUME NEW trace \in Seq(TraceEvent), NEW W, NEW shown \in Limits(W), NEW old \in Minds,
         NEW m \in Nat, NEW piece, StandsAt(trace, m, piece), NEW word \in Int \cup {NoWord},
         NEW mind \in Grown(old, Limit(W, shown, trace, m))
  PROVE  Extract(mind, piece, word) \in Grown(old, Limit(W, shown, trace, m + Len(piece)))
<1> DEFINE L == Len(piece)
           seq == Code(piece)
           segs == SafeSegments(seq)
           K == Len(segs)
           base == [mind |-> mind, piece |-> piece, word |-> word, offset |-> 0]
           last == Seeing!Fold(base, segs)
<1>1. piece \in Seq(OpEvent) /\ L \in Nat
  BY DEF StandsAt
<1>2. Extract(mind, piece, word) = last.mind
  BY DEF Extract, SeeAll, Code, FoldLeft, MapThenFoldSet, Max, Seeing!Fold, Seeing!FoldLeft,
         Seeing!MapThenFoldSet, Seeing!Max
<1> HIDE DEF last
<1>3. seq \in Seq(Executed) /\ Len(seq) = L
  BY <1>1, CodeType
<1> HIDE DEF seq
<1>4. segs \in Pieces /\ Apart(seq, segs, L)
  BY <1>3, SegmentsAreApart
<1> HIDE DEF segs, L
<1>5. PICK E :
        /\ E[0] = 0 /\ \A k \in 0 .. Len(segs) : E[k] \in 0 .. L
        /\ \A k \in 1 .. Len(segs) :
             /\ segs[k] \in Seq(Known) /\ Len(segs[k]) > 0
             /\ E[k - 1] + Len(segs[k]) <= E[k] /\ Ends(seq, segs[k], E[k])
  BY <1>1, <1>4, Stretches
<1>6. K \in Nat /\ segs \in Seq(Seq(Known))
  BY <1>4 DEF Pieces
<1> DEFINE Held == [k \in 0 .. K |-> Looked(old, Limit(W, shown, trace, m + E[k]), piece, word, E[k])]
<1>7. \A k \in 0 .. K : Held[k] = Looked(old, Limit(W, shown, trace, m + E[k]), piece, word, E[k])
  OBVIOUS
<1> HIDE DEF Held
<1>8. base \in Held[0]
  <2>1. m + E[0] = m /\ 0 \in 0 .. K
    BY <1>5, <1>6
  <2>2. base \in Looked(old, Limit(W, shown, trace, m), piece, word, 0)
    BY DEF Looked
  <2> HIDE DEF base
  <2> QED
    BY <1>5, <1>7, <2>1, <2>2
<1> HIDE DEF base
<1>9. ASSUME NEW k \in 1 .. K, NEW looking \in Held[k - 1]
      PROVE  SeeSegment(looking, segs[k]) \in Held[k]
  <2>1. k \in 0 .. K /\ k - 1 \in 0 .. K
    BY <1>6
  <2>2. looking \in Looked(old, Limit(W, shown, trace, m + E[k - 1]), piece, word, E[k - 1])
    BY <1>7, <2>1
  <2>3. /\ segs[k] \in Seq(Known) /\ Len(segs[k]) > 0
        /\ E[k - 1] + Len(segs[k]) <= E[k] /\ Ends(Code(piece), segs[k], E[k])
    BY <1>5 DEF seq
  <2>4. E[k - 1] \in 0 .. Len(piece) /\ E[k] \in 0 .. Len(piece)
    BY <1>5, <2>1 DEF L
  <2>5. SeeSegment(looking, segs[k]) \in Looked(old, Limit(W, shown, trace, m + E[k]), piece, word, E[k])
    BY <2>2, <2>3, <2>4, SegmentKeeps
  <2> QED
    BY <1>7, <2>1, <2>5
<1>10. last \in Held[K]
  BY <1>6, <1>8, <1>9, Seeing!FoldHolds DEF last, K
<1>11. last.mind \in Grown(old, Limit(W, shown, trace, m + E[K]))
  <2>1. last \in Looked(old, Limit(W, shown, trace, m + E[K]), piece, word, E[K])
    BY <1>6, <1>7, <1>10
  <2> QED
    BY <2>1 DEF Looked
<1>12. m + E[K] \in Nat /\ m + L \in Nat /\ m + E[K] <= m + L
  <2>1. E[K] \in 0 .. L
    BY <1>5, <1>6
  <2> QED
    BY <1>1, <2>1
<1> DEFINE few == Limit(W, shown, trace, m + E[K])
           many == Limit(W, shown, trace, m + L)
<1>13. few \in Limits(W) /\ many \in Limits(W) /\ \A w \in W : many[w] >= few[w]
  BY <1>12, LimitType, LimitGrows
<1>14. Grown(old, few) \subseteq Grown(old, many)
  <2> HIDE DEF few, many
  <2> QED
    BY <1>13, GrownWider
<1> QED
  BY <1>2, <1>11, <1>14 DEF L

-----------------------------------------------------------------------------
(***************************************************************************)
(* A trace, event by event.                                                *)
(***************************************************************************)
\* The reader behind n events: the last of them are its piece, and what was
\* learned so far is from the others.
Readings(old, W, shown, trace, n) ==
  { reading \in [mind : Minds, active : Seq(Int), piece : Seq(OpEvent)] :
      /\ Len(reading.piece) <= n
      /\ StandsAt(trace, n - Len(reading.piece), reading.piece)
      /\ reading.mind \in Grown(old, Limit(W, shown, trace, n - Len(reading.piece))) }

LEMMA LimitStarts ==
  ASSUME NEW W, NEW shown \in Limits(W), NEW trace
  PROVE  Limit(W, shown, trace, 0) = shown
<1>1. \A ops : PlacesTo(trace, ops, 0) = {}
  BY DEF PlacesTo
<1>2. Cardinality({}) = 0
  BY FS_EmptySet
<1>3. \A ops : Cardinality(PlacesTo(trace, ops, 0)) = 0
  BY <1>1, <1>2
<1>4. \A ops \in W : shown[ops] + Cardinality(PlacesTo(trace, ops, 0)) = shown[ops]
  BY <1>3 DEF Limits
<1> HIDE DEF PlacesTo
<1>5. Limit(W, shown, trace, 0) = [ops \in W |-> shown[ops]]
  BY <1>4 DEF Limit
<1> QED
  BY <1>5 DEF Limits

LEMMA BlamedType ==
  ASSUME NEW active \in Seq(Int), NEW event \in TraceEvent, event.kind # "Op"
  PROVE  Blamed(active, event) \in Int \cup {NoWord} /\ Crossed(active, event) \in Seq(Int)
<1>1. event.kind = "EnterWord" => event.word \in Int
  BY DEF TraceEvent
<1>2. Inmost(active) \in Int \cup {NoWord}
  <2>1. CASE active = <<>>
    BY <2>1 DEF Inmost
  <2>2. CASE active # <<>>
    <3>1. Last(active) \in Int
      BY <2>2 DEF Last
    <3> QED
      BY <3>1 DEF Inmost
  <2> QED
    BY <2>1, <2>2
<1>3. Crossed(active, event) \in Seq(Int)
  <2>1. CASE event.kind = "EnterWord"
    BY <1>1, <2>1 DEF Crossed
  <2>2. CASE event.kind = "ExitWord" /\ active # <<>>
    <3>1. Front(active) \in Seq(Int)
      BY <2>2 DEF Front
    <3> QED
      BY <2>2, <3>1 DEF Crossed
  <2>3. CASE event.kind # "EnterWord" /\ ~(event.kind = "ExitWord" /\ active # <<>>)
    <3>1. Crossed(active, event) = <<>>
      BY <2>3 DEF Crossed
    <3> QED
      BY <3>1
  <2> QED
    BY <2>1, <2>2, <2>3
<1> QED
  BY <1>1, <1>2, <1>3 DEF Blamed

LEMMA OneMoreStands ==
  ASSUME NEW trace \in Seq(TraceEvent), NEW n \in 1 .. Len(trace), NEW piece,
         Len(piece) <= n - 1, StandsAt(trace, n - 1 - Len(piece), piece), trace[n] \in OpEvent
  PROVE  LET more == Append(piece, trace[n])
         IN  /\ more \in Seq(OpEvent) /\ Len(more) <= n
             /\ n - Len(more) = n - 1 - Len(piece)
             /\ StandsAt(trace, n - Len(more), more)
<1> DEFINE event == trace[n]
           more == Append(piece, event)
           m == n - 1 - Len(piece)
<1>1. piece \in Seq(OpEvent) /\ Len(piece) \in Nat /\ StandsAt(trace, m, piece)
  BY DEF StandsAt
<1>2. more \in Seq(OpEvent) /\ Len(more) = Len(piece) + 1 /\ more[Len(piece) + 1] = event
      /\ \A i \in 1 .. Len(piece) : more[i] = piece[i]
  BY <1>1
<1>3. n - Len(more) = m /\ Len(more) <= n
  BY <1>1, <1>2
<1>4. StandsAt(trace, m, more)
  <2>1. m + Len(more) = n /\ n <= Len(trace)
    BY <1>1, <1>2
  <2>2. ASSUME NEW i \in 1 .. Len(more) PROVE trace[m + i] = more[i]
    <3>1. CASE i = Len(piece) + 1
      <4>1. m + i = n
        BY <1>1, <3>1
      <4> QED
        BY <1>2, <3>1, <4>1
    <3>2. CASE i \in 1 .. Len(piece)
      BY <1>1, <1>2, <3>2 DEF StandsAt
    <3>3. i = Len(piece) + 1 \/ i \in 1 .. Len(piece)
      <4>1. i \in 1 .. Len(piece) + 1
        BY <1>2
      <4> HIDE DEF more
      <4> QED
        BY <1>1, <4>1
    <3> QED
      BY <3>1, <3>2, <3>3
  <2> HIDE DEF more, m
  <2> QED
    BY <1>2, <2>1, <2>2 DEF StandsAt
<1> HIDE DEF more, m
<1> QED
  BY <1>2, <1>3, <1>4 DEF more, m

\* An Op event joins the piece.
LEMMA OpKeeps ==
  ASSUME NEW trace \in Seq(TraceEvent), NEW W, NEW shown \in Limits(W), NEW old \in Minds,
         NEW n \in 1 .. Len(trace), trace[n].kind = "Op",
         NEW reading \in Readings(old, W, shown, trace, n - 1)
  PROVE  ReadEvent(reading, trace[n]) \in Readings(old, W, shown, trace, n)
<1> DEFINE event == trace[n]
           piece == reading.piece
           more == Append(piece, event)
           m == n - 1 - Len(piece)
<1>1. reading \in [mind : Minds, active : Seq(Int), piece : Seq(OpEvent)]
      /\ Len(piece) <= n - 1 /\ StandsAt(trace, m, piece)
      /\ reading.mind \in Grown(old, Limit(W, shown, trace, m))
  BY DEF Readings
<1>2. event \in OpEvent
  BY DEF TraceEvent, OpEvent
<1>3. more \in Seq(OpEvent) /\ Len(more) <= n /\ n - Len(more) = m
      /\ StandsAt(trace, n - Len(more), more)
  BY <1>1, <1>2, OneMoreStands
<1>4. ReadEvent(reading, event) = [reading EXCEPT !.piece = more]
  BY DEF ReadEvent
<1> DEFINE next == [reading EXCEPT !.piece = more]
<1>5. next \in [mind : Minds, active : Seq(Int), piece : Seq(OpEvent)]
      /\ next.piece = more /\ next.mind = reading.mind
  <2> HIDE DEF more
  <2> QED
    BY <1>1, <1>3
<1> HIDE DEF next, more, m, event
<1> QED
  BY <1>1, <1>3, <1>4, <1>5 DEF Readings, event

\* Any other event ends the piece.
LEMMA EdgeKeeps ==
  ASSUME NEW trace \in Seq(TraceEvent), NEW W, NEW shown \in Limits(W), NEW old \in Minds,
         NEW n \in Nat, n <= Len(trace), NEW event \in TraceEvent, event.kind # "Op",
         NEW reading \in Readings(old, W, shown, trace, n)
  PROVE  \E mind \in Grown(old, Limit(W, shown, trace, n)), active \in Seq(Int) :
           ReadEvent(reading, event) = [mind |-> mind, active |-> active, piece |-> <<>>]
<1> DEFINE piece == reading.piece
           m == n - Len(piece)
           blamed == Blamed(reading.active, event)
<1>1. reading \in [mind : Minds, active : Seq(Int), piece : Seq(OpEvent)]
      /\ Len(piece) <= n /\ StandsAt(trace, m, piece)
      /\ reading.mind \in Grown(old, Limit(W, shown, trace, m))
  BY DEF Readings
<1>2. piece \in Seq(OpEvent) /\ Len(piece) \in Nat /\ reading.active \in Seq(Int)
  BY <1>1
<1>3. m \in Nat /\ m + Len(piece) = n
  BY <1>1, <1>2
<1>4. blamed \in Int \cup {NoWord} /\ Crossed(reading.active, event) \in Seq(Int)
  BY <1>2, BlamedType
<1> HIDE DEF m, blamed, piece
<1>5. Extract(reading.mind, piece, blamed) \in Grown(old, Limit(W, shown, trace, m + Len(piece)))
  BY <1>1, <1>3, <1>4, ExtractKeeps
<1>6. ReadEvent(reading, event) =
        [mind |-> Extract(reading.mind, piece, blamed),
         active |-> Crossed(reading.active, event), piece |-> <<>>]
  BY DEF ReadEvent, piece, blamed
<1> QED
  BY <1>3, <1>4, <1>5, <1>6

LEMMA AtEdge ==
  ASSUME NEW trace \in Seq(TraceEvent), NEW W, NEW shown, NEW old, NEW n \in Nat,
         n <= Len(trace), NEW mind \in Grown(old, Limit(W, shown, trace, n)),
         NEW active \in Seq(Int)
  PROVE  [mind |-> mind, active |-> active, piece |-> <<>>] \in Readings(old, W, shown, trace, n)
<1> DEFINE next == [mind |-> mind, active |-> active, piece |-> <<>>]
<1>1. Len(<<>>) = 0 /\ <<>> \in Seq(OpEvent) /\ n - 0 = n
  OBVIOUS
<1>2. mind \in Minds
  BY DEF Grown
<1>3. next \in [mind : Minds, active : Seq(Int), piece : Seq(OpEvent)]
  BY <1>1, <1>2
<1>4. StandsAt(trace, n, <<>>)
  BY <1>1 DEF StandsAt
<1>5. next.piece = <<>> /\ next.mind = mind
  OBVIOUS
<1> HIDE DEF next
<1>6. next \in Readings(old, W, shown, trace, n)
  BY <1>1, <1>3, <1>4, <1>5 DEF Readings
<1> QED
  BY <1>6 DEF next

\* What is learned from a trace comes from the runs in it.
LEMMA TraceKeeps ==
  ASSUME NEW trace \in Seq(TraceEvent), NEW W, NEW shown \in Limits(W),
         Mind \in Grown(Mind, shown)
  PROVE  ReadTrace(trace) \in Grown(Mind, Limit(W, shown, trace, Len(trace)))
<1> DEFINE N == Len(trace)
           full == Append(trace, [kind |-> "ExitWord"])
           base == [mind |-> Mind, active |-> <<>>, piece |-> <<>>]
           last == Reading!Fold(base, full)
           Done == [mind : Grown(Mind, Limit(W, shown, trace, N)), active : Seq(Int),
                    piece : {<<>>}]
           Held == [n \in 0 .. N + 1 |->
                      IF n = N + 1 THEN Done ELSE Readings(Mind, W, shown, trace, n)]
<1>1. ReadTrace(trace) = last.mind
  BY DEF ReadTrace, FoldLeft, MapThenFoldSet, Max, Reading!Fold, Reading!FoldLeft,
         Reading!MapThenFoldSet, Reading!Max
<1> HIDE DEF last
<1>2. [kind |-> "ExitWord"] \in TraceEvent /\ [kind |-> "ExitWord"].kind # "Op"
  BY DEF TraceEvent
<1>3. N \in Nat /\ full \in Seq(TraceEvent) /\ Len(full) = N + 1
      /\ full[N + 1] = [kind |-> "ExitWord"] /\ \A n \in 1 .. N : full[n] = trace[n]
  BY <1>2
<1> HIDE DEF full, Done, N
<1>4. Held[N + 1] = Done /\ \A n \in 0 .. N : Held[n] = Readings(Mind, W, shown, trace, n)
  BY <1>3
<1>5. Mind \in Minds
  BY DEF Grown
<1> HIDE DEF Held
<1>6. base \in Held[0]
  <2>1. 0 \in 0 .. N /\ 0 <= Len(trace) /\ <<>> \in Seq(Int)
    BY <1>3 DEF N
  <2>2. Mind \in Grown(Mind, Limit(W, shown, trace, 0))
    BY LimitStarts
  <2>3. base \in Readings(Mind, W, shown, trace, 0)
    BY <2>1, <2>2, AtEdge
  <2> HIDE DEF base
  <2> QED
    BY <1>4, <2>1, <2>3
<1> HIDE DEF base
<1>7. ASSUME NEW n \in 1 .. N + 1, NEW reading \in Held[n - 1]
      PROVE  ReadEvent(reading, full[n]) \in Held[n]
  <2>1. n - 1 \in 0 .. N
    BY <1>3
  <2>2. reading \in Readings(Mind, W, shown, trace, n - 1)
    BY <1>4, <2>1
  <2>3. n - 1 \in Nat /\ n - 1 <= Len(trace)
    BY <1>3, <2>1 DEF N
  <2>4. CASE n = N + 1
    <3>1. full[n] = [kind |-> "ExitWord"] /\ Held[n] = Done /\ n - 1 = N
      BY <1>3, <1>4, <2>4
    <3>2. PICK mind \in Grown(Mind, Limit(W, shown, trace, n - 1)), active \in Seq(Int) :
            ReadEvent(reading, full[n]) = [mind |-> mind, active |-> active, piece |-> <<>>]
      BY <1>2, <1>5, <2>2, <2>3, <3>1, EdgeKeeps
    <3>3. mind \in Grown(Mind, Limit(W, shown, trace, N))
      BY <3>1
    <3>4. [mind |-> mind, active |-> active, piece |-> <<>>] \in Done
      BY <3>3 DEF Done
    <3> QED
      BY <3>1, <3>2, <3>4
  <2>5. CASE n \in 1 .. N /\ trace[n].kind = "Op"
    <3>1. full[n] = trace[n] /\ Held[n] = Readings(Mind, W, shown, trace, n)
          /\ n \in 1 .. Len(trace)
      BY <1>3, <1>4, <2>5 DEF N
    <3> QED
      BY <1>5, <2>2, <2>5, <3>1, OpKeeps
  <2>6. CASE n \in 1 .. N /\ trace[n].kind # "Op"
    <3>1. /\ full[n] = trace[n] /\ Held[n] = Readings(Mind, W, shown, trace, n)
          /\ n \in 1 .. Len(trace) /\ trace[n] \in TraceEvent
      BY <1>3, <1>4, <2>6 DEF N
    <3>2. PICK mind \in Grown(Mind, Limit(W, shown, trace, n - 1)), active \in Seq(Int) :
            ReadEvent(reading, full[n]) = [mind |-> mind, active |-> active, piece |-> <<>>]
      BY <1>5, <2>2, <2>3, <2>6, <3>1, EdgeKeeps
    <3>3. Grown(Mind, Limit(W, shown, trace, n - 1)) \subseteq Grown(Mind, Limit(W, shown, trace, n))
      <4>1. n - 1 \in Nat /\ n \in Nat /\ n - 1 <= n
        BY <2>3
      <4> DEFINE few == Limit(W, shown, trace, n - 1)
                 many == Limit(W, shown, trace, n)
      <4>2. few \in Limits(W) /\ many \in Limits(W) /\ \A w \in W : many[w] >= few[w]
        BY <4>1, LimitType, LimitGrows
      <4> HIDE DEF few, many
      <4>3. Grown(Mind, few) \subseteq Grown(Mind, many)
        BY <4>2, GrownWider
      <4> QED
        BY <4>3 DEF few, many
    <3>4. n \in Nat /\ n <= Len(trace) /\ mind \in Grown(Mind, Limit(W, shown, trace, n))
      BY <3>1, <3>3
    <3>5. [mind |-> mind, active |-> active, piece |-> <<>>]
            \in Readings(Mind, W, shown, trace, n)
      BY <3>4, AtEdge
    <3> QED
      BY <3>1, <3>2, <3>5
  <2> QED
    BY <1>3, <2>4, <2>5, <2>6
<1>8. last \in Held[N + 1]
  <2>1. last \in Held[Len(full)]
    BY <1>3, <1>6, <1>7, Reading!FoldHolds DEF last
  <2> QED
    BY <1>3, <2>1
<1> QED
  BY <1>1, <1>4, <1>8 DEF Done, N

LEMMA DecayedIsLess ==
  ASSUME NEW score \in Int
  PROVE  /\ Decayed(score) \in Int
         /\ \A limit \in Nat : score <= limit => Decayed(score) <= limit
<1>1. CASE score >= 0
  <2>1. (score * 85) \div 100 \in Int /\ (score * 85) \div 100 <= score
    BY <1>1
  <2> QED
    BY <1>1, <2>1 DEF Decayed
<1>2. CASE ~(score >= 0)
  <2>1. (-score * 85) \div 100 \in Int /\ (-score * 85) \div 100 >= 0
    BY <1>2
  <2> QED
    BY <1>2, <2>1 DEF Decayed
<1> QED
  BY <1>1, <1>2

\* The decay lowers scores, and forgets no failure.
LEMMA DecayKeeps ==
  ASSUME NEW old \in Minds, NEW W, NEW limit \in Limits(W), NEW mind \in Grown(old, limit)
  PROVE  [mind EXCEPT !.patterns = Decay(@)] \in Grown(old, limit)
<1> DEFINE known == mind.patterns
           kept == { ctx \in DOMAIN known :
                       Decayed(known[ctx].score) > 0 \/ known[ctx].failures > 0 }
           out == [mind EXCEPT !.patterns = Decay(@)]
<1>1. PICK S \in SUBSET Context : known \in [S -> Stats]
  BY DEF Grown, Minds, Maps
<1>2. mind \in Minds
  BY DEF Grown
<1>3. ASSUME NEW ctx \in S
      PROVE  /\ known[ctx].score \in Int /\ known[ctx].failures \in Nat
             /\ Decayed(known[ctx].score) \in Int
             /\ [known[ctx] EXCEPT !.score = Decayed(@)]
                  = [failures |-> known[ctx].failures, score |-> Decayed(known[ctx].score)]
  <2>1. known[ctx] \in [failures : Nat, score : Int]
    BY <1>1 DEF Stats
  <2> HIDE DEF known
  <2>2. known[ctx].score \in Int /\ known[ctx].failures \in Nat
    BY <2>1
  <2> QED
    BY <2>1, <2>2, DecayedIsLess
<1>4. /\ kept \in SUBSET S /\ kept \in SUBSET Context
      /\ Decay(known) = [ctx \in kept |-> [known[ctx] EXCEPT !.score = Decayed(@)]]
  BY <1>1 DEF Decay
<1> DEFINE less == Decay(known)
<1> HIDE DEF less
<1>5. DOMAIN less = kept
  BY <1>4 DEF less
<1>6. ASSUME NEW ctx \in kept
      PROVE  /\ less[ctx].failures = known[ctx].failures
             /\ less[ctx].score = Decayed(known[ctx].score)
             /\ less[ctx] \in Stats
  <2>1. less[ctx] = [known[ctx] EXCEPT !.score = Decayed(@)]
    BY <1>4 DEF less
  <2>2. ctx \in S
    BY <1>4
  <2> HIDE DEF kept, known
  <2>3. less[ctx] = [failures |-> known[ctx].failures, score |-> Decayed(known[ctx].score)]
    BY <1>3, <2>1, <2>2
  <2>4. known[ctx].failures \in Nat /\ Decayed(known[ctx].score) \in Int
    BY <1>3, <2>2
  <2> HIDE DEF less
  <2> QED
    BY <2>3, <2>4 DEF Stats
<1>7. less \in Maps
  <2>1. less = [ctx \in kept |-> less[ctx]]
    BY <1>4 DEF less
  <2> HIDE DEF kept
  <2>2. less \in [kept -> Stats]
    BY <1>6, <2>1
  <2> QED
    BY <1>4, <2>2 DEF Maps
<1>8. out = [patterns |-> less, supers |-> mind.supers, pending |-> mind.pending]
  <2>1. mind \in [patterns : Maps, supers : SUBSET Context, pending : Seq(QueueItem)]
    BY <1>2 DEF Minds
  <2> QED
    BY <2>1 DEF less
<1>9. out \in Minds
  <2>1. mind.supers \in SUBSET Context /\ mind.pending \in Seq(QueueItem)
    BY <1>2 DEF Minds
  <2> HIDE DEF out
  <2> QED
    BY <1>7, <1>8, <2>1 DEF Minds
<1>10. StrikesKept(old, less)
  <2> SUFFICES ASSUME NEW ctx \in DOMAIN old.patterns, old.patterns[ctx].failures > 0
               PROVE  ctx \in DOMAIN less /\ less[ctx].failures = old.patterns[ctx].failures
    BY DEF StrikesKept
  <2>1. ctx \in DOMAIN known /\ known[ctx].failures = old.patterns[ctx].failures
    BY DEF Grown, StrikesKept
  <2>2. ctx \in kept
    BY <2>1
  <2> HIDE DEF kept, known
  <2> QED
    BY <1>5, <1>6, <2>1, <2>2
<1>11. Within(less, limit)
  <2> SUFFICES ASSUME NEW ctx \in kept, ctx.original_ops \in DOMAIN limit
               PROVE  less[ctx].score <= limit[ctx.original_ops]
    BY <1>5 DEF Within
  <2>1. known[ctx].score <= limit[ctx.original_ops]
    BY DEF Grown, Within
  <2>2. limit[ctx.original_ops] \in Nat
    BY DEF Limits
  <2>3. ctx \in S
    BY <1>4
  <2> HIDE DEF kept, known
  <2>4. less[ctx].score = Decayed(known[ctx].score)
    BY <1>6
  <2> QED
    BY <1>3, <2>1, <2>2, <2>3, <2>4, DecayedIsLess
<1>12. /\ QueueOK(mind) /\ StayOut(old, mind.pending) /\ Earned(mind.supers, limit)
  BY DEF Grown
<1>13. NoneBlamed(old, less)
  <2>1. NoneBlamed(old, known)
    BY DEF Grown
  <2>2. kept \subseteq DOMAIN known
    OBVIOUS
  <2> HIDE DEF kept, known
  <2> QED
    BY <1>5, <1>6, <2>1, <2>2 DEF NoneBlamed
<1> HIDE DEF out
<1>14. QueueOK(out)
  BY <1>8, <1>12 DEF QueueOK
<1> QED
  BY <1>8, <1>9, <1>10, <1>11, <1>12, <1>13, <1>14 DEF Grown, out

\* observe_runtime_traces.
LEMMA LearnedKeeps ==
  ASSUME NEW trace \in Seq(TraceEvent), NEW W, NEW shown \in Limits(W),
         Mind \in Grown(Mind, shown), decay_counter \in 0 .. DecayEvents
  PROVE  /\ Learned(trace).mind \in Grown(Mind, Limit(W, shown, trace, Len(trace)))
         /\ Learned(trace).count \in 0 .. DecayEvents
<1> DEFINE more == Limit(W, shown, trace, Len(trace))
           count == decay_counter + Len(trace)
           read == ReadTrace(trace)
<1>1. Len(trace) \in Nat
  OBVIOUS
<1>2. Mind \in Minds
  BY DEF Grown
<1>3. more \in Limits(W) /\ \A w \in W : more[w] >= shown[w]
  <2>1. Limit(W, shown, trace, 0) = shown
    BY LimitStarts
  <2>2. 0 <= Len(trace) /\ 0 \in Nat
    BY <1>1
  <2>3. \A w \in W : more[w] >= Limit(W, shown, trace, 0)[w]
    BY <1>1, <2>2, LimitGrows
  <2> QED
    BY <1>1, <2>1, <2>3, LimitType
<1>4. read \in Grown(Mind, more)
  BY <1>1, TraceKeeps
<1> HIDE DEF more, read
<1>5. Mind \in Grown(Mind, more)
  BY <1>3, GrownWider
<1>6. [read EXCEPT !.patterns = Decay(@)] \in Grown(Mind, more)
  BY <1>2, <1>3, <1>4, DecayKeeps
<1>7. decay_counter \in Nat /\ DecayEvents \in Nat /\ decay_counter <= DecayEvents /\ count \in Nat
  BY <1>1, LimitAssumption
<1>8. CASE is_frozen \/ Len(trace) < 2
  <2>1. Learned(trace) = [mind |-> Mind, count |-> decay_counter]
    BY <1>8 DEF Learned
  <2> QED
    BY <1>5, <2>1 DEF more
<1>9. CASE ~(is_frozen \/ Len(trace) < 2) /\ count > DecayEvents
  <2>1. Learned(trace) = [mind |-> [read EXCEPT !.patterns = Decay(@)], count |-> 0]
    BY <1>1, <1>9 DEF Learned, read
  <2> QED
    BY <1>6, <1>7, <2>1 DEF more
<1>10. CASE ~(is_frozen \/ Len(trace) < 2) /\ ~(count > DecayEvents)
  <2>1. Learned(trace) = [mind |-> read, count |-> count]
    BY <1>1, <1>10 DEF Learned, read
  <2> QED
    BY <1>4, <1>7, <1>10, <2>1 DEF more
<1> QED
  BY <1>8, <1>9, <1>10

\* No pattern that waits for the JIT has too many failures.
Unstruck(mind) ==
  \A k \in DOMAIN mind.pending :
    mind.pending[k].ctx \in DOMAIN mind.patterns =>
      mind.patterns[mind.pending[k].ctx].failures <= MaxStrikes

\* An observation does not queue one.
LEMMA GrownUnstruck ==
  ASSUME NEW old \in Minds, Unstruck(old), NEW W, NEW limit \in Limits(W),
         NEW mind \in Grown(old, limit)
  PROVE  Unstruck(mind)
<1> SUFFICES ASSUME NEW k \in DOMAIN mind.pending,
                    mind.pending[k].ctx \in DOMAIN mind.patterns,
                    ~(mind.patterns[mind.pending[k].ctx].failures <= MaxStrikes)
             PROVE  FALSE
  BY DEF Unstruck
<1> DEFINE ctx == mind.pending[k].ctx
           places == { n \in DOMAIN mind.pending : mind.pending[n].ctx = ctx }
           before == { n \in DOMAIN old.pending : old.pending[n].ctx = ctx }
<1>1. PICK f : f = mind.patterns[ctx].failures
  OBVIOUS
<1>2. f \in Nat /\ MaxStrikes \in Nat /\ f > MaxStrikes /\ f > 0
  <2>1. PICK S \in SUBSET Context : mind.patterns \in [S -> Stats]
    BY DEF Grown, Minds, Maps
  <2>2. f \in Nat
    BY <1>1, <2>1 DEF Stats
  <2> QED
    BY <1>1, <2>2, LimitAssumption
<1>3. ctx \in DOMAIN old.patterns /\ old.patterns[ctx].failures = f
  BY <1>1, <1>2 DEF Grown, NoneBlamed
<1>4. Cardinality(places) = Cardinality(before)
  BY <1>2, <1>3 DEF Grown, StayOut, Queued
<1>5. before = {}
  BY <1>2, <1>3 DEF Unstruck
<1>6. IsFiniteSet(places) /\ k \in places
  <2>1. mind.pending \in Seq(QueueItem)
    BY DEF Grown, Minds
  <2>2. Len(mind.pending) \in Nat /\ places \in SUBSET (1 .. Len(mind.pending))
    BY <2>1
  <2> HIDE DEF places
  <2>3. PICK n \in Nat : n = Len(mind.pending)
    BY <2>2
  <2>4. IsFiniteSet(1 .. n)
    BY FS_Interval
  <2>5. places \in SUBSET (1 .. n)
    BY <2>2, <2>3
  <2>6. IsFiniteSet(places)
    BY <2>4, <2>5, FS_Subset
  <2> QED
    BY <2>6 DEF places
<1> HIDE DEF places, before
<1> QED
  BY <1>4, <1>5, <1>6, FS_EmptySet

-----------------------------------------------------------------------------
(***************************************************************************)
(* The whole state, and the one a snapshot keeps.                          *)
(***************************************************************************)
\* What holds of a state of the optimizer when limit says how often each
\* watched sequence has been run.
Sound(state, limit) ==
  /\ StateOK(state)
  /\ \A k \in DOMAIN state.pending_jit : state.pending_jit[k].ctx \in state.super_instructions
  /\ Within(state.patterns, limit)
  /\ Earned(state.super_instructions, limit)

\* The inductive invariant: the snapshot is as good as the state.
OInv(limit) ==
  /\ Sound(State, limit)
  /\ disk.kind \in {"none", "torn", "saved"} /\ Sound(disk.state, limit)

LEMMA MapsForm ==
  ASSUME NEW map
  PROVE  map \in Maps <=> DOMAIN map \subseteq Context /\ map \in [DOMAIN map -> Stats]
<1>1. ASSUME map \in Maps PROVE DOMAIN map \subseteq Context /\ map \in [DOMAIN map -> Stats]
  <2>1. PICK S \in SUBSET Context : map \in [S -> Stats]
    BY <1>1 DEF Maps
  <2> QED
    BY <2>1
<1>2. ASSUME DOMAIN map \subseteq Context, map \in [DOMAIN map -> Stats] PROVE map \in Maps
  BY <1>2 DEF Maps
<1> QED
  BY <1>1, <1>2

LEMMA SoundWider ==
  ASSUME NEW state, NEW W, NEW limit \in Limits(W), NEW more \in Limits(W),
         \A w \in W : more[w] >= limit[w], Sound(state, limit)
  PROVE  Sound(state, more)
<1>1. DOMAIN limit = W /\ DOMAIN more = W /\ \A w \in W : limit[w] \in Nat /\ more[w] \in Nat
  BY DEF Limits
<1>2. ASSUME NEW ctx \in DOMAIN state.patterns, ctx.original_ops \in W
      PROVE  state.patterns[ctx].score <= more[ctx.original_ops]
  <2>1. state.patterns[ctx].score \in Int
    <3>1. state.patterns[ctx] \in Stats
      BY DEF Sound, StateOK
    <3> QED
      BY <3>1 DEF Stats
  <2>2. state.patterns[ctx].score <= limit[ctx.original_ops]
    BY <1>1, <1>2 DEF Sound, Within
  <2>3. /\ limit[ctx.original_ops] \in Nat /\ more[ctx.original_ops] \in Nat
        /\ more[ctx.original_ops] >= limit[ctx.original_ops]
    BY <1>1, <1>2
  <2> QED
    BY <2>1, <2>2, <2>3
<1>3. ASSUME NEW ctx \in state.super_instructions, ctx.original_ops \in W
      PROVE  more[ctx.original_ops] >= ScoreThreshold
  <2>1. limit[ctx.original_ops] >= ScoreThreshold
    BY <1>1, <1>3 DEF Sound, Earned
  <2>2. /\ limit[ctx.original_ops] \in Nat /\ more[ctx.original_ops] \in Nat
        /\ more[ctx.original_ops] >= limit[ctx.original_ops]
    BY <1>1, <1>3
  <2> QED
    BY <2>1, <2>2, LimitAssumption
<1> QED
  BY <1>1, <1>2, <1>3 DEF Sound, Within, Earned

\* A sound state learns from itself.
LEMMA SoundIsGrown ==
  ASSUME NEW W, NEW limit \in Limits(W), Sound(State, limit)
  PROVE  Mind \in Grown(Mind, limit)
<1>1. /\ DOMAIN patterns \subseteq Context /\ patterns \in [DOMAIN patterns -> Stats]
      /\ super_instructions \subseteq Context /\ pending_jit \in Seq([ip : Nat, ctx : Context])
      /\ Len(pending_jit) <= MAX_PENDING_JIT
      /\ \A k \in DOMAIN pending_jit : pending_jit[k].ctx \in super_instructions
      /\ Within(patterns, limit) /\ Earned(super_instructions, limit)
  BY DEF Sound, StateOK, State
<1>2. patterns \in Maps
  BY <1>1, MapsForm
<1>3. Mind \in Minds
  BY <1>1, <1>2 DEF Mind, Minds, QueueItem
<1>4. QueueOK(Mind) /\ Within(Mind.patterns, limit) /\ Earned(Mind.supers, limit)
  BY <1>1 DEF Mind, QueueOK
<1>5. StrikesKept(Mind, Mind.patterns) /\ NoneBlamed(Mind, Mind.patterns)
      /\ StayOut(Mind, Mind.pending)
  BY DEF StrikesKept, NoneBlamed, StayOut
<1> QED
  BY <1>3, <1>4, <1>5 DEF Grown

LEMMA FreshIsSound ==
  ASSUME NEW W, NEW limit \in Limits(W)
  PROVE  Sound(Fresh, limit)
<1>1. DOMAIN <<>> = {} /\ <<>> \in [{} -> Stats] /\ <<>> \in Seq([ip : Nat, ctx : Context])
      /\ Len(<<>>) = 0
  OBVIOUS
<1>2. FirstThreshold \in Nat /\ DecayEvents \in Nat /\ MAX_PENDING_JIT \in Nat
  BY LimitAssumption
<1>3. StateOK(Fresh)
  BY <1>1, <1>2 DEF StateOK, Fresh
<1> QED
  BY <1>1, <1>3 DEF Sound, Within, Earned, Fresh

-----------------------------------------------------------------------------
(***************************************************************************)
(* The actions.                                                            *)
(***************************************************************************)
LEMMA ObserveKeeps ==
  ASSUME NEW trace \in Seq(TraceEvent), NEW W, NEW limit \in Limits(W), OInv(limit),
         Observe(trace), UNCHANGED <<eval_count, next_opt_threshold, is_frozen, disk>>
  PROVE  /\ OInv(Limit(W, limit, trace, Len(trace)))'
         /\ StrikesKept(Mind, patterns') /\ StayOut(Mind, pending_jit')
<1> DEFINE more == Limit(W, limit, trace, Len(trace))
           now == Learned(trace)
           mind == now.mind
<1>1. Sound(State, limit) /\ Sound(disk.state, limit) /\ disk.kind \in {"none", "torn", "saved"}
  BY DEF OInv
<1>2. decay_counter \in 0 .. DecayEvents /\ eval_count \in Nat /\ next_opt_threshold \in Nat
      /\ is_frozen \in BOOLEAN
  BY <1>1 DEF Sound, StateOK, State
<1>3. mind \in Grown(Mind, more) /\ now.count \in 0 .. DecayEvents
  BY <1>1, <1>2, SoundIsGrown, LearnedKeeps
<1>4. more \in Limits(W) /\ \A w \in W : more[w] >= limit[w]
  <2>1. Len(trace) \in Nat
    OBVIOUS
  <2>2. 0 <= Len(trace) /\ 0 \in Nat
    BY <2>1
  <2>3. \A w \in W : more[w] >= Limit(W, limit, trace, 0)[w]
    BY <2>1, <2>2, LimitGrows
  <2> QED
    BY <2>1, <2>3, LimitType, LimitStarts
<1>5. /\ patterns' = mind.patterns /\ super_instructions' = mind.supers
      /\ pending_jit' = mind.pending /\ decay_counter' = now.count
      /\ eval_count' = eval_count /\ next_opt_threshold' = next_opt_threshold
      /\ is_frozen' = is_frozen /\ disk' = disk
  BY DEF Observe
<1> HIDE DEF more, now
<1>6. StrikesKept(Mind, patterns') /\ StayOut(Mind, pending_jit')
  BY <1>3, <1>5 DEF Grown
<1>7. /\ mind.patterns \in Maps /\ mind.supers \in SUBSET Context
      /\ mind.pending \in Seq([ip : Nat, ctx : Context])
      /\ Len(mind.pending) <= MAX_PENDING_JIT
      /\ \A k \in DOMAIN mind.pending : mind.pending[k].ctx \in mind.supers
      /\ Within(mind.patterns, more) /\ Earned(mind.supers, more)
  BY <1>3 DEF Grown, Minds, QueueOK, QueueItem
<1>8. DOMAIN mind.patterns \subseteq Context /\ mind.patterns \in [DOMAIN mind.patterns -> Stats]
  BY <1>7, MapsForm
<1> HIDE DEF mind
<1>9. Sound(State', more)
  BY <1>2, <1>3, <1>5, <1>7, <1>8 DEF Sound, StateOK, State
<1>10. Sound(disk.state, more)
  BY <1>1, <1>4, SoundWider
<1>11. OInv(more)'
  BY <1>1, <1>5, <1>9, <1>10 DEF OInv
<1> QED
  BY <1>6, <1>11 DEF more

LEMMA PenalizeKeeps ==
  ASSUME NEW W, NEW limit \in Limits(W), OInv(limit), NEW ctx, Penalize(ctx)
  PROVE  OInv(limit)'
<1>1. /\ DOMAIN patterns \subseteq Context /\ patterns \in [DOMAIN patterns -> Stats]
      /\ Within(patterns, limit)
  BY DEF OInv, Sound, StateOK, State
<1>2. /\ DOMAIN patterns' = DOMAIN patterns /\ patterns' \in [DOMAIN patterns -> Stats]
      /\ \A c \in DOMAIN patterns : patterns'[c].score <= patterns[c].score
  <2>1. CASE ctx \notin DOMAIN patterns
    <3>1. patterns' = patterns
      BY <2>1 DEF Penalize
    <3>2. \A c \in DOMAIN patterns : patterns[c].score \in Int
      BY <1>1 DEF Stats
    <3> QED
      BY <1>1, <3>1, <3>2
  <2>2. CASE ctx \in DOMAIN patterns
    <3> DEFINE old == patterns[ctx]
               new == [failures |-> old.failures + 1, score |-> old.score - PenaltyScore]
    <3>1. old \in [failures : Nat, score : Int] /\ PenaltyScore \in Nat
      BY <1>1, <2>2, LimitAssumption DEF Stats
    <3>2. old.failures \in Nat /\ old.score \in Int
      BY <3>1
    <3>3. new \in Stats /\ new.score <= old.score
      BY <3>1, <3>2 DEF Stats
    <3>4. patterns' = [patterns EXCEPT ![ctx] = new]
      BY <2>2 DEF Penalize
    <3> HIDE DEF new, old
    <3>5. \A c \in DOMAIN patterns : patterns[c].score \in Int
      BY <1>1 DEF Stats
    <3> QED
      BY <1>1, <2>2, <3>3, <3>4, <3>5 DEF old
  <2> QED
    BY <2>1, <2>2
<1>3. Within(patterns', limit)
  <2> SUFFICES ASSUME NEW c \in DOMAIN patterns, c.original_ops \in W
               PROVE  patterns'[c].score <= limit[c.original_ops]
    BY <1>2 DEF Within, Limits
  <2>1. patterns[c].score \in Int /\ patterns'[c].score \in Int /\ limit[c.original_ops] \in Nat
    BY <1>1, <1>2 DEF Stats, Limits
  <2>2. patterns[c].score <= limit[c.original_ops]
    BY <1>1 DEF Within, Limits
  <2>3. patterns'[c].score <= patterns[c].score
    BY <1>2
  <2> QED
    BY <2>1, <2>2, <2>3
<1>4. /\ UNCHANGED <<super_instructions, pending_jit, decay_counter, eval_count,
                     next_opt_threshold, is_frozen, disk>>
  BY DEF Penalize, pace
<1>5. DOMAIN patterns' \subseteq Context /\ patterns' \in [DOMAIN patterns' -> Stats]
  BY <1>1, <1>2
<1>6. Sound(State', limit)
  BY <1>3, <1>4, <1>5 DEF OInv, Sound, StateOK, State
<1> QED
  BY <1>4, <1>6 DEF OInv

LEMMA CountType ==
  ASSUME eval_count \in Nat, next_opt_threshold \in Nat, CountEval
  PROVE  eval_count' \in Nat /\ next_opt_threshold' \in Nat
<1>1. eval_count' \in Nat
  BY DEF CountEval
<1> DEFINE half == next_opt_threshold \div 2
           gap == Max({half, MinGap})
<1>2. half \in Nat /\ MinGap \in Nat
  BY LimitAssumption
<1> HIDE DEF half
<1>3. gap \in Nat
  <2>1. gap \in Int /\ gap >= MinGap
    BY <1>2, TwoNumbers
  <2> HIDE DEF gap
  <2> QED
    BY <1>2, <2>1
<1>4. next_opt_threshold' = IF Due THEN next_opt_threshold + gap ELSE next_opt_threshold
  BY DEF CountEval, half
<1> HIDE DEF gap
<1> QED
  BY <1>1, <1>3, <1>4

\* The steps that learn nothing.
QuietStep == ShouldRun \/ Drain \/ Freeze \/ KeepStep \/ UNCHANGED ovars

LEMMA QuietKeeps ==
  ASSUME NEW W, NEW limit \in Limits(W), OInv(limit), QuietStep
  PROVE  OInv(limit)'
<1>1. Sound(State, limit) /\ Sound(disk.state, limit) /\ disk.kind \in {"none", "torn", "saved"}
  BY DEF OInv
<1>2. Sound(Fresh, limit)
  BY FreshIsSound
<1>3. CASE ShouldRun
  <2>1. eval_count \in Nat /\ next_opt_threshold \in Nat
    BY <1>1 DEF Sound, StateOK, State
  <2>2. eval_count' \in Nat /\ next_opt_threshold' \in Nat
    BY <1>3, <2>1, CountType DEF ShouldRun
  <2>4. UNCHANGED <<patterns, super_instructions, pending_jit, decay_counter, is_frozen, disk>>
    BY <1>3 DEF ShouldRun, learned
  <2>5. Sound(State', limit)
    BY <1>1, <2>2, <2>4 DEF Sound, StateOK, State
  <2> QED
    BY <1>1, <2>4, <2>5 DEF OInv
<1>4. CASE Drain
  <2>1. pending_jit' = <<>>
        /\ UNCHANGED <<patterns, super_instructions, decay_counter, eval_count,
                       next_opt_threshold, is_frozen, disk>>
    BY <1>4 DEF Drain, pace
  <2>2. Len(<<>>) = 0 /\ DOMAIN <<>> = {} /\ <<>> \in Seq([ip : Nat, ctx : Context])
        /\ MAX_PENDING_JIT \in Nat
    BY LimitAssumption
  <2>3. Sound(State', limit)
    BY <1>1, <2>1, <2>2 DEF Sound, StateOK, State
  <2> QED
    BY <1>1, <2>1, <2>3 DEF OInv
<1>5. CASE Freeze
  <2>1. is_frozen' = TRUE
        /\ UNCHANGED <<patterns, super_instructions, pending_jit, decay_counter, eval_count,
                       next_opt_threshold, disk>>
    BY <1>5 DEF Freeze, learned, pace
  <2>2. Sound(State', limit)
    BY <1>1, <2>1 DEF Sound, StateOK, State
  <2> QED
    BY <1>1, <2>1, <2>2 DEF OInv
<1>6. CASE Save
  <2>1. State' = State
    BY <1>6 DEF Save, State, learned, pace
  <2>2. disk' = [kind |-> "saved", state |-> State] \/ disk' = disk
    BY <1>6 DEF Save
  <2> QED
    BY <1>1, <2>1, <2>2 DEF OInv
<1>7. CASE Restart
  <2>1. State' = Fresh
    BY <1>7 DEF Restart, Become, State, Fresh
  <2>2. disk' = [kind |-> "torn", state |-> Fresh] \/ disk' = disk
    BY <1>7 DEF Restart
  <2> QED
    BY <1>1, <1>2, <2>1, <2>2 DEF OInv
<1>8. CASE Load
  <2>1. /\ patterns' = disk.state.patterns
        /\ super_instructions' = disk.state.super_instructions
        /\ pending_jit' = disk.state.pending_jit
        /\ decay_counter' = disk.state.decay_counter
        /\ eval_count' = disk.state.eval_count
        /\ next_opt_threshold' = disk.state.next_opt_threshold
        /\ is_frozen' = disk.state.is_frozen
        /\ disk' = disk
    BY <1>8 DEF Load, Become
  <2> DEFINE state == disk.state
  <2>2. Sound(State', limit)
    <3>1. Sound(state, limit)
      BY <1>1
    <3>2. /\ patterns' = state.patterns
          /\ super_instructions' = state.super_instructions
          /\ pending_jit' = state.pending_jit
          /\ decay_counter' = state.decay_counter
          /\ eval_count' = state.eval_count
          /\ next_opt_threshold' = state.next_opt_threshold
          /\ is_frozen' = state.is_frozen
      BY <2>1
    <3> HIDE DEF state
    <3> QED
      BY <3>1, <3>2 DEF Sound, StateOK, State
  <2> QED
    BY <1>1, <2>1, <2>2 DEF OInv
<1>9. CASE UNCHANGED ovars
  <2>1. State' = State /\ disk' = disk
    BY <1>9 DEF ovars, State, learned, pace
  <2> QED
    BY <1>1, <2>1 DEF OInv
<1> QED
  BY <1>3, <1>4, <1>5, <1>6, <1>7, <1>8, <1>9 DEF QuietStep, KeepStep

LEMMA StartIsSound ==
  ASSUME NEW W, NEW limit \in Limits(W), OInit
  PROVE  OInv(limit)
<1>1. State = Fresh
  BY DEF OInit, State, Fresh
<1>2. disk.kind = "none" /\ disk.state = Fresh
  BY DEF OInit
<1> QED
  BY <1>1, <1>2, FreshIsSound DEF OInv

-----------------------------------------------------------------------------
(***************************************************************************)
(* The optimizer on its own: nothing is counted.                           *)
(***************************************************************************)
NoLimit == [w \in {} |-> 0]

LEMMA NoLimitType ==
  /\ NoLimit \in Limits({})
  /\ \A limit \in Limits({}) : limit = NoLimit
BY DEF NoLimit, Limits

LEMMA OInvHolds == OSpec => []OInv(NoLimit)
<1>1. OInit => OInv(NoLimit)
  BY NoLimitType, StartIsSound
<1>2. OInv(NoLimit) /\ [ONext]_ovars => OInv(NoLimit)'
  <2> SUFFICES ASSUME OInv(NoLimit), [ONext]_ovars PROVE OInv(NoLimit)'
    OBVIOUS
  <2>1. CASE ObserveTrace
    <3>1. PICK trace \in Seq(TraceEvent) :
            Observe(trace) /\ UNCHANGED <<eval_count, next_opt_threshold, is_frozen, disk>>
      BY <2>1, TraceAssumption DEF ObserveTrace
    <3> DEFINE more == Limit({}, NoLimit, trace, Len(trace))
    <3>2. OInv(more)'
      BY <3>1, NoLimitType, ObserveKeeps
    <3>3. more = NoLimit
      <4>2. Len(trace) \in Nat
        OBVIOUS
      <4>3. more \in Limits({})
        BY <4>2, NoLimitType, LimitType
      <4> HIDE DEF more
      <4> QED
        BY <4>3, NoLimitType
    <3> QED
      BY <3>2, <3>3
  <2>2. ASSUME NEW ctx, Penalize(ctx) PROVE OInv(NoLimit)'
    BY <2>2, NoLimitType, PenalizeKeeps
  <2>3. CASE QuietStep
    BY <2>3, NoLimitType, QuietKeeps
  <2> QED
    BY <2>1, <2>2, <2>3 DEF ONext, LearnStep, KeepStep, QuietStep
<1> QED
  BY <1>1, <1>2, PTL DEF OSpec

(***************************************************************************)
(* OptimizerState keeps its types and the bound of pending_jit, whatever   *)
(* is observed, penalized, saved and loaded.                               *)
(***************************************************************************)
THEOREM LearnTypes == OSpec => []LearnTypeOK
<1>1. OInv(NoLimit) => LearnTypeOK
  BY DEF OInv, Sound, LearnTypeOK
<1> QED
  BY <1>1, OInvHolds, PTL

(***************************************************************************)
(* Whatever waits in pending_jit is in super_instructions.                 *)
(***************************************************************************)
THEOREM QueueIsPromoted == OSpec => []QueuedIsPromoted
<1>1. OInv(NoLimit) => QueuedIsPromoted
  BY DEF OInv, Sound, State, QueuedIsPromoted
<1> QED
  BY <1>1, OInvHolds, PTL

\* What a step does to the failures and to the queue.
LEMMA StepRemembers ==
  ASSUME OInv(NoLimit), [ONext]_ovars
  PROVE  \/ Load \/ Restart
         \/ \A ctx \in DOMAIN patterns :
              /\ patterns[ctx].failures > 0 =>
                   ctx \in DOMAIN patterns' /\ patterns'[ctx].failures >= patterns[ctx].failures
              /\ patterns[ctx].failures > MaxStrikes =>
                   Queued(pending_jit', ctx) <= Queued(pending_jit, ctx)
<1>1. /\ patterns \in [DOMAIN patterns -> Stats]
      /\ pending_jit \in Seq([ip : Nat, ctx : Context])
  BY DEF OInv, Sound, StateOK, State
<1>2. \A ctx \in DOMAIN patterns : patterns[ctx].failures \in Nat /\ patterns[ctx].score \in Int
  BY <1>1 DEF Stats
<1>3. \A ctx : Queued(pending_jit, ctx) \in Nat
  <2> SUFFICES ASSUME NEW ctx PROVE Queued(pending_jit, ctx) \in Nat
    OBVIOUS
  <2>1. Len(pending_jit) \in Nat /\ DOMAIN pending_jit = 1 .. Len(pending_jit)
    BY <1>1
  <2>2. { k \in DOMAIN pending_jit : pending_jit[k].ctx = ctx } \in SUBSET (1 .. Len(pending_jit))
    BY <2>1
  <2>3. IsFiniteSet(1 .. Len(pending_jit))
    BY <2>1, FS_Interval
  <2>4. IsFiniteSet({ k \in DOMAIN pending_jit : pending_jit[k].ctx = ctx })
    BY <2>2, <2>3, FS_Subset
  <2> QED
    BY <2>4, FS_CardinalityType DEF Queued
<1>4. CASE ObserveTrace
  <2>1. PICK trace \in Seq(TraceEvent) :
          Observe(trace) /\ UNCHANGED <<eval_count, next_opt_threshold, is_frozen, disk>>
    BY <1>4, TraceAssumption DEF ObserveTrace
  <2>2. StrikesKept(Mind, patterns') /\ StayOut(Mind, pending_jit')
    BY <2>1, NoLimitType, ObserveKeeps
  <2>3. \A ctx \in DOMAIN patterns :
          /\ patterns[ctx].failures > 0 =>
               ctx \in DOMAIN patterns' /\ patterns'[ctx].failures = patterns[ctx].failures
          /\ patterns[ctx].failures > MaxStrikes =>
               Queued(pending_jit', ctx) = Queued(pending_jit, ctx)
    BY <2>2 DEF StrikesKept, StayOut, Mind
  <2> QED
    BY <1>2, <1>3, <2>3
<1>5. ASSUME NEW c, Penalize(c)
      PROVE  \A ctx \in DOMAIN patterns :
               /\ ctx \in DOMAIN patterns' /\ patterns'[ctx].failures >= patterns[ctx].failures
               /\ Queued(pending_jit', ctx) <= Queued(pending_jit, ctx)
  <2>1. pending_jit' = pending_jit
    BY <1>5 DEF Penalize
  <2>2. CASE c \notin DOMAIN patterns
    <3>1. patterns' = patterns
      BY <1>5, <2>2 DEF Penalize
    <3> QED
      BY <1>2, <1>3, <2>1, <3>1
  <2>3. CASE c \in DOMAIN patterns
    <3>1. patterns' = [patterns EXCEPT ![c] = [failures |-> @.failures + 1,
                                               score |-> @.score - PenaltyScore]]
      BY <1>5, <2>3 DEF Penalize
    <3>2. patterns[c] \in [failures : Nat, score : Int]
      BY <1>1, <2>3 DEF Stats
    <3>3. /\ DOMAIN patterns' = DOMAIN patterns
          /\ patterns'[c].failures = patterns[c].failures + 1
          /\ \A ctx \in DOMAIN patterns : ctx # c => patterns'[ctx] = patterns[ctx]
      BY <1>1, <2>3, <3>1, <3>2
    <3> QED
      BY <1>2, <1>3, <2>1, <3>3
  <2> QED
    BY <2>2, <2>3
<1>6. CASE ShouldRun \/ Freeze \/ Save \/ UNCHANGED ovars
  <2>1. patterns' = patterns /\ pending_jit' = pending_jit
    BY <1>6 DEF ShouldRun, Freeze, Save, learned, ovars
  <2> QED
    BY <1>2, <1>3, <2>1
<1>7. CASE Drain
  <2>1. patterns' = patterns /\ pending_jit' = <<>>
    BY <1>7 DEF Drain
  <2>2. ASSUME NEW ctx PROVE Queued(pending_jit', ctx) = 0
    <3>1. { k \in DOMAIN pending_jit' : pending_jit'[k].ctx = ctx } = {}
      BY <2>1
    <3> QED
      BY <3>1, FS_EmptySet DEF Queued
  <2> QED
    BY <1>2, <1>3, <2>1, <2>2
<1> QED
  BY <1>4, <1>5, <1>6, <1>7 DEF ONext, LearnStep, KeepStep

(***************************************************************************)
(* Short of the end of the process and of a snapshot, no failure of a      *)
(* pattern is forgotten, neither by extract_patterns nor by the decay.     *)
(***************************************************************************)
THEOREM StrikesStay == OSpec => StrikesAreKept
<1>1. OInv(NoLimit) /\ [ONext]_ovars =>
        [Load \/ Restart \/
         \A ctx \in DOMAIN patterns :
           patterns[ctx].failures > 0 =>
             /\ ctx \in DOMAIN patterns'
             /\ patterns'[ctx].failures >= patterns[ctx].failures]_ovars
  BY StepRemembers
<1> QED
  BY <1>1, OInvHolds, PTL DEF OSpec, StrikesAreKept

(***************************************************************************)
(* learning.md:31.  A pattern with more failures than MaxStrikes is not    *)
(* pushed on pending_jit again.                                            *)
(***************************************************************************)
THEOREM StruckOut == OSpec => StruckOutStaysOut
<1>1. OInv(NoLimit) /\ [ONext]_ovars =>
        [Load \/ Restart \/
         \A ctx \in DOMAIN patterns :
           patterns[ctx].failures > MaxStrikes =>
             Queued(pending_jit', ctx) <= Queued(pending_jit, ctx)]_ovars
  BY StepRemembers
<1> QED
  BY <1>1, OInvHolds, PTL DEF OSpec, StruckOutStaysOut

-----------------------------------------------------------------------------
(***************************************************************************)
(* The optimizer and the runs it learns from.                              *)
(***************************************************************************)
\* seen says how often each watched sequence was run.
LInv == seen \in Limits(Watched) /\ OInv(seen)

LEMMA PlacesAreAll ==
  ASSUME NEW trace \in Seq(TraceEvent), NEW shown \in Limits(Watched)
  PROVE  Limit(Watched, shown, trace, Len(trace)) =
           [ops \in Watched |-> shown[ops] + Places(trace, ops)]
<1>1. DOMAIN trace = 1 .. Len(trace)
  OBVIOUS
<1>2. \A ops : Places(trace, ops) = Cardinality(PlacesTo(trace, ops, Len(trace)))
  BY <1>1 DEF Places, PlacesTo
<1> QED
  BY <1>2 DEF Limit

LEMMA LInvHolds == LSpec => []LInv
<1>1. LInit => LInv
  <2> SUFFICES ASSUME LInit PROVE LInv
    OBVIOUS
  <2>1. seen \in Limits(Watched)
    BY DEF LInit, Limits
  <2> QED
    BY <2>1, StartIsSound DEF LInit, LInv
<1>2. LInv /\ [LNext]_lvars => LInv'
  <2> SUFFICES ASSUME LInv, [LNext]_lvars PROVE LInv'
    OBVIOUS
  <2>1. PICK shown : shown = seen
    OBVIOUS
  <2>2. shown \in Limits(Watched) /\ OInv(shown)
    BY <2>1 DEF LInv
  <2>3. CASE Show
    <3>1. PICK trace \in Seq(TraceEvent) :
            /\ seen' = [ops \in Watched |-> shown[ops] + Places(trace, ops)]
            /\ Observe(trace)
            /\ UNCHANGED <<eval_count, next_opt_threshold, is_frozen, disk>>
      BY <2>1, <2>3, TraceAssumption DEF Show
    <3>2. Len(trace) \in Nat
      OBVIOUS
    <3> DEFINE more == Limit(Watched, shown, trace, Len(trace))
    <3>3. seen' = more
      BY <2>2, <3>1, <3>2, PlacesAreAll
    <3>4. more \in Limits(Watched)
      BY <2>2, <3>2, LimitType
    <3>5. OInv(more)'
      BY <2>2, <3>1, ObserveKeeps
    <3> HIDE DEF more
    <3> QED
      BY <3>3, <3>4, <3>5 DEF LInv, OInv
  <2>4. CASE seen' = seen /\ (Strike \/ QuietStep)
    <3>1. OInv(shown)'
      BY <2>2, <2>4, PenalizeKeeps, QuietKeeps DEF Strike
    <3>2. seen' = shown
      BY <2>1, <2>4
    <3> QED
      BY <2>2, <3>1, <3>2 DEF LInv, OInv
  <2>5. Show \/ (seen' = seen /\ (Strike \/ QuietStep))
    BY DEF LNext, lvars, QuietStep
  <2> QED
    BY <2>3, <2>4, <2>5
<1> QED
  BY <1>1, <1>2, PTL DEF LSpec

(***************************************************************************)
(* A context is in super_instructions only if its sequence was run as      *)
(* often as score_threshold asks: current_offset, the pieces at the edges  *)
(* of words, penalties, decay and snapshots count no run twice.            *)
(***************************************************************************)
THEOREM PromotionEarned == LSpec => []PromotionIsEarned
<1>1. LInv => PromotionIsEarned
  <2> SUFFICES ASSUME LInv PROVE PromotionIsEarned
    OBVIOUS
  <2>1. Earned(super_instructions, seen) /\ DOMAIN seen = Watched
    BY DEF LInv, OInv, Sound, State, Limits
  <2> QED
    BY <2>1 DEF Earned, PromotionIsEarned
<1> QED
  BY <1>1, LInvHolds, PTL

-----------------------------------------------------------------------------
(***************************************************************************)
(* What is queued was run: where the segments of a trace stand in it.      *)
(***************************************************************************)
\* The instructions of an item stand in one piece of a trace, at its ip when
\* the piece is straight, and else there or later.
Traced(trace, item) ==
  \E s, e \in DOMAIN trace :
    /\ IsPiece(trace, s, e)
    /\ \E p, q \in s .. e :
         /\ p <= q /\ (IsStraight(trace, s, e) => p = q)
         /\ trace[p].ip = item.ip
         /\ \A i \in DOMAIN item.ctx.original_ops :
              q + i - 1 <= e /\ trace[q + i - 1].ins = item.ctx.original_ops[i]

\* S has room for every item of the trace.
Admits(S, trace) == \A item \in QueueItem : Traced(trace, item) => item \in S

\* The event at i, if there is one, is no Op.
NoOpAt(trace, i) == i \in DOMAIN trace => trace[i].kind # "Op"

\* The events behind m are a piece that no Op is left out of.
PieceAt(trace, m, piece) ==
  /\ StandsAt(trace, m, piece)
  /\ NoOpAt(trace, m) /\ NoOpAt(trace, m + Len(piece) + 1)

LEMMA PieceIsPiece ==
  ASSUME NEW trace \in Seq(TraceEvent), NEW m \in Nat, NEW piece, PieceAt(trace, m, piece)
  PROVE  /\ IsPiece(trace, m + 1, m + Len(piece))
         /\ \A i \in 1 .. Len(piece) : m + i \in DOMAIN trace /\ trace[m + i] = piece[i]
<1>1. /\ piece \in Seq(OpEvent) /\ Len(piece) \in Nat /\ m + Len(piece) <= Len(trace)
      /\ Len(trace) \in Nat /\ DOMAIN trace = 1 .. Len(trace)
      /\ \A i \in 1 .. Len(piece) : trace[m + i] = piece[i]
  BY DEF PieceAt, StandsAt
<1>2. \A i \in 1 .. Len(piece) : piece[i].kind = "Op"
  <2>1. \A i \in 1 .. Len(piece) : piece[i] \in OpEvent
    BY <1>1
  <2> QED
    BY <2>1 DEF OpEvent
<1>3. ASSUME NEW i \in m + 1 .. m + Len(piece) PROVE i \in DOMAIN trace /\ trace[i].kind = "Op"
  <2>1. i - m \in 1 .. Len(piece) /\ m + (i - m) = i
    BY <1>1
  <2>2. trace[m + (i - m)] = piece[i - m]
    BY <1>1, <2>1
  <2> QED
    BY <1>1, <1>2, <2>1, <2>2
<1>4. ASSUME NEW i \in {(m + 1) - 1, (m + Len(piece)) + 1} \cap DOMAIN trace
      PROVE  trace[i].kind # "Op"
  <2>1. i = m \/ i = m + Len(piece) + 1
    BY <1>1
  <2> QED
    BY <2>1, <1>4 DEF PieceAt, NoOpAt
<1> QED
  BY <1>1, <1>3, <1>4 DEF IsPiece

\* A segment that ends at `to`, looked up at an offset no later than where it
\* begins.
LEMMA SegmentIsTraced ==
  ASSUME NEW trace \in Seq(TraceEvent), NEW m \in Nat, NEW piece, PieceAt(trace, m, piece),
         NEW to \in 0 .. Len(piece), NEW seg \in Seq(Known), Len(seg) > 0,
         Ends(Code(piece), seg, to),
         NEW offset \in Nat, offset + Len(seg) <= to,
         IsStraight(trace, m + 1, m + Len(piece)) => offset + Len(seg) = to,
         NEW word \in Int \cup {NoWord}
  PROVE  LET item == [ip |-> piece[offset + 1].ip, ctx |-> [word |-> word, original_ops |-> seg]]
         IN  item \in QueueItem /\ Traced(trace, item)
<1> DEFINE item == [ip |-> piece[offset + 1].ip, ctx |-> [word |-> word, original_ops |-> seg]]
           s == m + 1
           e == m + Len(piece)
           p == m + offset + 1
           q == m + (to - Len(seg)) + 1
<1>1. /\ piece \in Seq(OpEvent) /\ Len(piece) \in Nat /\ DOMAIN piece = 1 .. Len(piece)
      /\ Len(seg) \in Nat /\ DOMAIN seg = 1 .. Len(seg)
  BY DEF PieceAt, StandsAt
<1>2. offset + 1 \in 1 .. Len(piece) /\ s \in s .. e /\ e \in s .. e
  BY <1>1
<1>p. p \in s .. e /\ p = m + (offset + 1)
  BY <1>1
<1>q. q \in s .. e /\ p <= q
  BY <1>1
<1>pq. offset + Len(seg) = to => p = q
  BY <1>1
<1>3. /\ IsPiece(trace, s, e)
      /\ \A i \in 1 .. Len(piece) : m + i \in DOMAIN trace /\ trace[m + i] = piece[i]
  BY PieceIsPiece
<1>4. s \in DOMAIN trace /\ e \in DOMAIN trace
  BY <1>2, <1>3 DEF IsPiece
<1>5. trace[p].ip = piece[offset + 1].ip /\ piece[offset + 1].ip \in Nat
  <2> DEFINE first == offset + 1
  <2>1. first \in 1 .. Len(piece) /\ m + first = p
    BY <1>2, <1>p
  <2> HIDE DEF first, p
  <2>2. trace[p] = piece[first] /\ piece[first] \in OpEvent
    BY <1>1, <1>3, <2>1
  <2>3. trace[p].ip = piece[first].ip /\ piece[first].ip \in Nat
    BY <2>2 DEF OpEvent
  <2> QED
    BY <2>3 DEF first
<1>6. ASSUME NEW i \in 1 .. Len(seg)
      PROVE  q + i - 1 <= e /\ trace[q + i - 1].ins = seg[i]
  <2> DEFINE j == to - Len(seg) + i
  <2>1. j \in 1 .. Len(piece) /\ q + i - 1 = m + j /\ m + j <= e
    BY <1>1
  <2>2. seg[i] = Code(piece)[j]
    BY DEF Ends
  <2> HIDE DEF j, q, e
  <2>3. trace[m + j] = piece[j] /\ Code(piece)[j] = piece[j].ins
    BY <1>1, <1>3, <2>1 DEF Code
  <2> QED
    BY <2>1, <2>2, <2>3
<1>7. item \in QueueItem
  <2>1. seg \in Seq([op : Contracted, data : Int])
    BY KnownIsContracted
  <2> QED
    BY <1>5, <2>1 DEF QueueItem, Context
<1>8. IsStraight(trace, s, e) => p = q
  BY <1>pq
<1>9. item.ip = piece[offset + 1].ip /\ item.ctx.original_ops = seg
  OBVIOUS
<1> HIDE DEF s, e, p, q, item
<1>10. /\ p <= q /\ (IsStraight(trace, s, e) => p = q) /\ trace[p].ip = item.ip
       /\ \A i \in DOMAIN item.ctx.original_ops :
            q + i - 1 <= e /\ trace[q + i - 1].ins = item.ctx.original_ops[i]
  BY <1>1, <1>q, <1>5, <1>6, <1>8, <1>9
<1>11. Traced(trace, item)
  BY <1>3, <1>4, <1>p, <1>q, <1>10 DEF Traced
<1> QED
  BY <1>7, <1>11 DEF item

\* A sequence that is cut without a gap.
Gapless(seq) ==
  \A i \in 1 .. Len(seq) : /\ seq[i].op \notin {"Jump", "JZ"}
                           /\ i < Len(seq) => seq[i].op \in Contracted

\* Where the segments end; without a gap between them when the sequence
\* is cut so.
EndAt(seq, segs, E) ==
  /\ E[0] = 0 /\ \A k \in 0 .. Len(segs) : E[k] \in 0 .. Len(seq)
  /\ \A k \in 1 .. Len(segs) :
       /\ segs[k] \in Seq(Known) /\ Len(segs[k]) > 0
       /\ E[k - 1] + Len(segs[k]) <= E[k] /\ Ends(seq, segs[k], E[k])
       /\ Gapless(seq) => E[k - 1] + Len(segs[k]) = E[k]

LEMMA SegmentEnds ==
  ASSUME NEW seq \in Seq(Executed), NEW segs, segs = SafeSegments(seq)
  PROVE  segs \in Pieces /\ \E E : EndAt(seq, segs, E)
<1>1. segs \in Pieces /\ Apart(seq, segs, Len(seq))
  BY SegmentsAreApart
<1>2. Len(seq) \in Nat
  OBVIOUS
<1>3. CASE ~Gapless(seq)
  BY <1>1, <1>2, <1>3, Stretches DEF EndAt
<1>4. CASE Gapless(seq)
  <2>1. PICK n \in 0 .. Len(seq) : Tiled(seq, segs, n)
    BY <1>4, SegmentsAreTiled DEF Gapless
  <2>2. PICK off :
          /\ off[0] = 0 /\ off[Len(segs)] = n /\ \A k \in 0 .. Len(segs) : off[k] \in 0 .. n
          /\ \A k \in 1 .. Len(segs) :
               /\ off[k] = off[k - 1] + Len(segs[k])
               /\ segs[k] # <<>> /\ Ends(seq, segs[k], off[k])
    BY <2>1 DEF Tiled
  <2>3. Len(segs) \in Nat /\ \A k \in 1 .. Len(segs) : segs[k] \in Seq(Known)
    BY <1>1 DEF Pieces
  <2>4. \A k \in 0 .. Len(segs) : off[k] \in 0 .. Len(seq)
    BY <1>2, <2>2
  <2>5. ASSUME NEW k \in 1 .. Len(segs)
        PROVE  /\ segs[k] \in Seq(Known) /\ Len(segs[k]) > 0
               /\ off[k - 1] + Len(segs[k]) = off[k] /\ off[k - 1] + Len(segs[k]) <= off[k]
               /\ Ends(seq, segs[k], off[k])
    <3>1. segs[k] \in Seq(Known) /\ segs[k] # <<>> /\ off[k] = off[k - 1] + Len(segs[k])
          /\ Ends(seq, segs[k], off[k])
      BY <2>2, <2>3
    <3>2. k \in 0 .. Len(segs) /\ off[k] \in Int
      <4>1. k \in 0 .. Len(segs)
        BY <2>3
      <4> QED
        BY <2>4, <4>1
    <3>3. Len(segs[k]) \in Nat /\ Len(segs[k]) > 0
      BY <3>1
    <3> QED
      BY <3>1, <3>2, <3>3
  <2> QED
    BY <1>1, <2>2, <2>4, <2>5 DEF EndAt
<1> QED
  BY <1>3, <1>4

\* See queues nothing but the item.
LEMMA SeeFits ==
  ASSUME NEW S, NEW mind, mind.pending \in Seq(S), NEW item \in S
  PROVE  See(mind, item).pending \in Seq(S)
<1>1. Append(mind.pending, item) \in Seq(S)
  OBVIOUS
<1>2. \/ See(mind, item) = mind
      \/ See(mind, item).pending = mind.pending
      \/ See(mind, item).pending = Append(mind.pending, item)
  BY DEF See
<1> QED
  BY <1>1, <1>2

\* extract_patterns queues the segments of a piece: their lengths add up to no
\* more than the place of the next, and to that place when none is left out.
LEMMA ExtractFits ==
  ASSUME NEW trace \in Seq(TraceEvent), NEW m \in Nat, NEW piece, PieceAt(trace, m, piece),
         NEW word \in Int \cup {NoWord}, NEW S, Admits(S, trace),
         NEW mind, mind.pending \in Seq(S)
  PROVE  Extract(mind, piece, word).pending \in Seq(S)
<1> DEFINE seq == Code(piece)
           segs == SafeSegments(seq)
           K == Len(segs)
           base == [mind |-> mind, piece |-> piece, word |-> word, offset |-> 0]
           last == Seeing!Fold(base, segs)
           straight == IsStraight(trace, m + 1, m + Len(piece))
<1>1. piece \in Seq(OpEvent) /\ Len(piece) \in Nat /\ DOMAIN piece = 1 .. Len(piece)
  BY DEF PieceAt, StandsAt
<1>2. Extract(mind, piece, word) = last.mind
  BY DEF Extract, SeeAll, Code, FoldLeft, MapThenFoldSet, Max, Seeing!Fold, Seeing!FoldLeft,
         Seeing!MapThenFoldSet, Seeing!Max
<1> HIDE DEF last
<1>3. seq \in Seq(Executed) /\ Len(seq) = Len(piece)
  BY <1>1, CodeType
<1>4. straight => Gapless(seq)
  <2> SUFFICES ASSUME straight, NEW i \in 1 .. Len(seq)
               PROVE  /\ seq[i].op \notin {"Jump", "JZ"}
                      /\ i < Len(seq) => seq[i].op \in Contracted
    BY DEF Gapless
  <2>1. i \in 1 .. Len(piece) /\ i \in DOMAIN piece
    BY <1>1, <1>3
  <2>2. seq[i] = piece[i].ins
    BY <2>1 DEF Code
  <2>3. trace[m + i] = piece[i]
    BY <2>1, PieceIsPiece
  <2>4. m + i \in m + 1 .. m + Len(piece) /\ (i < Len(piece) => m + i < m + Len(piece))
    BY <1>1, <2>1
  <2> HIDE DEF seq
  <2>5. /\ trace[m + i].ins.op \notin {"Jump", "JZ"}
        /\ m + i < m + Len(piece) => trace[m + i].ins.op \in Contracted
    BY <2>4 DEF IsStraight
  <2> QED
    BY <1>3, <2>2, <2>3, <2>4, <2>5
<1> HIDE DEF seq
<1>5. segs \in Pieces /\ \E E : EndAt(seq, segs, E)
  BY <1>3, SegmentEnds
<1> HIDE DEF segs
<1>6. PICK E :
        /\ E[0] = 0 /\ \A k \in 0 .. K : E[k] \in 0 .. Len(seq)
        /\ \A k \in 1 .. K :
             /\ segs[k] \in Seq(Known) /\ Len(segs[k]) > 0
             /\ E[k - 1] + Len(segs[k]) <= E[k] /\ Ends(seq, segs[k], E[k])
             /\ Gapless(seq) => E[k - 1] + Len(segs[k]) = E[k]
  BY <1>5 DEF EndAt
<1>7. K \in Nat /\ segs \in Seq(Seq(Known))
  BY <1>5 DEF Pieces
<1>8. PICK r : /\ r[0] = base
               /\ \A k \in 1 .. K : r[k] = SeeSegment(r[k - 1], segs[k])
               /\ last = r[K]
  BY <1>7, Seeing!FoldRuns DEF last
<1> DEFINE Looks(k, looking) ==
             \E now : \E offset \in 0 .. E[k] :
               /\ looking = [mind |-> now, piece |-> piece, word |-> word, offset |-> offset]
               /\ straight => offset = E[k]
               /\ now.pending \in Seq(S)
           Good == { k \in 0 .. K : Looks(k, r[k]) }
<1> HIDE DEF K, straight
<1>9. 0 \in Good
  <2>1. 0 \in 0 .. E[0] /\ 0 = E[0] /\ 0 \in 0 .. K
    BY <1>6, <1>7
  <2> QED
    BY <1>8, <2>1
<1>10. ASSUME NEW j \in 0 .. K - 1, j \in Good PROVE j + 1 \in Good
  <2> DEFINE k == j + 1
             seg == segs[k]
             to == E[k]
  <2>1. k \in 1 .. K /\ k \in 0 .. K /\ k - 1 = j /\ j \in 0 .. K
    BY <1>7
  <2>2. PICK now : \E offset \in 0 .. E[j] :
          /\ r[j] = [mind |-> now, piece |-> piece, word |-> word, offset |-> offset]
          /\ straight => offset = E[j]
          /\ now.pending \in Seq(S)
    BY <1>10
  <2>3. PICK offset \in 0 .. E[j] :
          /\ r[j] = [mind |-> now, piece |-> piece, word |-> word, offset |-> offset]
          /\ straight => offset = E[j]
          /\ now.pending \in Seq(S)
    BY <2>2
  <2>4. /\ seg \in Seq(Known) /\ Len(seg) \in Nat /\ Len(seg) > 0 /\ E[j] + Len(seg) <= to
        /\ Ends(Code(piece), seg, to)
        /\ straight => E[j] + Len(seg) = to
    BY <1>4, <1>6, <2>1 DEF seq
  <2>5. E[j] \in 0 .. Len(piece) /\ to \in 0 .. Len(piece)
    BY <1>3, <1>6, <2>1
  <2>6. /\ offset \in Nat /\ offset + Len(seg) <= to /\ offset + Len(seg) \in 0 .. to
        /\ straight => offset + Len(seg) = to
    <3> HIDE DEF k, seg, to
    <3>1. offset \in Nat /\ offset <= E[j] /\ E[j] \in Nat /\ to \in Nat
      BY <2>5
    <3>2. /\ offset + Len(seg) <= to
          /\ offset = E[j] /\ E[j] + Len(seg) = to => offset + Len(seg) = to
      BY <2>4, <3>1
    <3> QED
      BY <2>3, <2>4, <3>1, <3>2
  <2>7. r[k] = SeeSegment(r[j], seg)
    BY <1>8, <2>1
  <2> DEFINE item == Item(r[j], seg)
             next == See(now, item)
  <2>8. r[k] = [mind |-> next, piece |-> piece, word |-> word, offset |-> offset + Len(seg)]
    <3> HIDE DEF k, seg, to
    <3> QED
      BY <2>3, <2>7 DEF SeeSegment
  <2>9. item = [ip |-> piece[offset + 1].ip, ctx |-> [word |-> word, original_ops |-> seg]]
    <3> HIDE DEF k, seg, to
    <3> QED
      BY <2>3 DEF Item
  <2> HIDE DEF k, seg, to, item, next
  <2>10. item \in S
    <3>1. item \in QueueItem /\ Traced(trace, item)
      BY <2>4, <2>5, <2>6, <2>9, SegmentIsTraced DEF straight
    <3> QED
      BY <3>1 DEF Admits
  <2>11. next.pending \in Seq(S)
    BY <2>3, <2>10, SeeFits DEF next
  <2>12. Looks(k, r[k])
    BY <2>6, <2>8, <2>11 DEF to
  <2> QED
    BY <2>1, <2>12 DEF k
<1>11. K \in Good
  <2> HIDE DEF Good
  <2>1. \A j \in 0 .. K - 1 : j \in Good => j + 1 \in Good
    BY <1>10
  <2>2. 0 .. K \subseteq Good
    BY <1>7, <1>9, <2>1, Seeing!UpTo
  <2> QED
    BY <1>7, <2>2
<1>12. PICK now : \E offset \in 0 .. E[K] :
         /\ r[K] = [mind |-> now, piece |-> piece, word |-> word, offset |-> offset]
         /\ now.pending \in Seq(S)
  BY <1>11
<1>13. r[K].mind = now /\ now.pending \in Seq(S)
  BY <1>12
<1> HIDE DEF Good, Looks, base
<1> QED
  BY <1>2, <1>8, <1>13

\* The reader behind n events of a trace: the piece under way goes back to the
\* event that began it.
Reads(S, trace, n, reading) ==
  \E mind, piece : \E active \in Seq(Int) :
    /\ reading = [mind |-> mind, active |-> active, piece |-> piece]
    /\ mind.pending \in Seq(S)
    /\ Len(piece) <= n /\ StandsAt(trace, n - Len(piece), piece)
    /\ NoOpAt(trace, n - Len(piece))

LEMMA OpReads ==
  ASSUME NEW S, NEW trace \in Seq(TraceEvent), NEW n \in 1 .. Len(trace),
         trace[n].kind = "Op", NEW reading, Reads(S, trace, n - 1, reading)
  PROVE  Reads(S, trace, n, ReadEvent(reading, trace[n]))
<1> DEFINE event == trace[n]
<1>1. PICK mind, piece, active :
        /\ reading = [mind |-> mind, active |-> active, piece |-> piece] /\ active \in Seq(Int)
        /\ mind.pending \in Seq(S)
        /\ Len(piece) <= n - 1 /\ StandsAt(trace, n - 1 - Len(piece), piece)
        /\ NoOpAt(trace, n - 1 - Len(piece))
  BY DEF Reads
<1> DEFINE more == Append(piece, event)
<1>2. event \in OpEvent
  BY DEF TraceEvent, OpEvent
<1>3. /\ Len(more) <= n /\ StandsAt(trace, n - Len(more), more)
      /\ NoOpAt(trace, n - Len(more))
  BY <1>1, <1>2, OneMoreStands
<1>4. ReadEvent(reading, event) = [mind |-> mind, active |-> active, piece |-> more]
  <2> HIDE DEF more
  <2>1. [reading EXCEPT !.piece = more] = [mind |-> mind, active |-> active, piece |-> more]
    BY <1>1
  <2>2. ReadEvent(reading, event) = [reading EXCEPT !.piece = Append(reading.piece, event)]
    BY DEF ReadEvent
  <2>3. reading.piece = piece
    BY <1>1
  <2> QED
    BY <2>1, <2>2, <2>3 DEF more
<1> HIDE DEF more, event
<1> QED
  BY <1>1, <1>3, <1>4 DEF Reads, event

LEMMA EdgeReads ==
  ASSUME NEW S, NEW trace \in Seq(TraceEvent), Admits(S, trace), NEW n \in Nat,
         NoOpAt(trace, n + 1),
         NEW event \in TraceEvent, event.kind # "Op",
         NEW reading, Reads(S, trace, n, reading)
  PROVE  \E mind : \E active \in Seq(Int) :
           /\ ReadEvent(reading, event) = [mind |-> mind, active |-> active, piece |-> <<>>]
           /\ mind.pending \in Seq(S)
<1>1. PICK mind, piece, active :
        /\ reading = [mind |-> mind, active |-> active, piece |-> piece] /\ active \in Seq(Int)
        /\ mind.pending \in Seq(S)
        /\ Len(piece) <= n /\ StandsAt(trace, n - Len(piece), piece)
        /\ NoOpAt(trace, n - Len(piece))
  BY DEF Reads
<1> DEFINE blamed == Blamed(active, event)
           next == Extract(mind, piece, blamed)
<1>2. Len(piece) \in Nat /\ n - Len(piece) \in Nat /\ (n - Len(piece)) + Len(piece) + 1 = n + 1
  BY <1>1 DEF StandsAt
<1>3. PieceAt(trace, n - Len(piece), piece)
  BY <1>1, <1>2 DEF PieceAt
<1>4. blamed \in Int \cup {NoWord} /\ Crossed(active, event) \in Seq(Int)
  BY <1>1, BlamedType
<1> HIDE DEF blamed
<1>5. next.pending \in Seq(S)
  BY <1>1, <1>2, <1>3, <1>4, ExtractFits
<1>6. ReadEvent(reading, event) = [mind |-> next, active |-> Crossed(active, event), piece |-> <<>>]
  BY <1>1 DEF ReadEvent, blamed
<1> HIDE DEF next
<1> QED
  BY <1>4, <1>5, <1>6

\* observe_runtime_traces queues nothing that its trace does not hold.
LEMMA TraceFits ==
  ASSUME NEW S, NEW trace \in Seq(TraceEvent), Admits(S, trace),
         pending_jit \in Seq(S)
  PROVE  ReadTrace(trace).pending \in Seq(S)
<1> DEFINE N == Len(trace)
           exit == [kind |-> "ExitWord"]
           full == Append(trace, exit)
           base == [mind |-> Mind, active |-> <<>>, piece |-> <<>>]
           last == Reading!Fold(base, full)
<1>1. ReadTrace(trace) = last.mind
  BY DEF ReadTrace, FoldLeft, MapThenFoldSet, Max, Reading!Fold, Reading!FoldLeft,
         Reading!MapThenFoldSet, Reading!Max
<1> HIDE DEF last
<1>2. exit \in TraceEvent /\ exit.kind # "Op"
  BY DEF TraceEvent
<1>3. N \in Nat /\ full \in Seq(TraceEvent) /\ Len(full) = N + 1
      /\ full[N + 1] = exit /\ \A n \in 1 .. N : full[n] = trace[n]
  BY <1>2
<1>4. PICK r : /\ r[0] = base
               /\ \A n \in 1 .. Len(full) : r[n] = ReadEvent(r[n - 1], full[n])
               /\ last = r[Len(full)]
  BY <1>3, Reading!FoldRuns DEF last
<1> HIDE DEF full, N, exit
<1>5. \A n \in 1 .. N : r[n] = ReadEvent(r[n - 1], trace[n])
  BY <1>3, <1>4
<1> DEFINE Good == { n \in 0 .. N : Reads(S, trace, n, r[n]) }
<1>6. ASSUME NEW n \in 0 .. N, NEW mind, NEW active \in Seq(Int), mind.pending \in Seq(S),
             r[n] = [mind |-> mind, active |-> active, piece |-> <<>>], NoOpAt(trace, n)
      PROVE  Reads(S, trace, n, r[n])
  <2>1. Len(<<>>) = 0 /\ <<>> \in Seq(OpEvent) /\ n - 0 = n /\ n <= Len(trace) /\ 0 <= n
    BY <1>3 DEF N
  <2>2. StandsAt(trace, n - Len(<<>>), <<>>)
    BY <2>1 DEF StandsAt
  <2> QED
    BY <1>6, <2>1, <2>2 DEF Reads
<1>7. 0 \in Good
  <2>1. <<>> \in Seq(Int) /\ Mind.pending \in Seq(S) /\ 0 \in 0 .. N /\ NoOpAt(trace, 0)
    BY <1>3 DEF Mind, NoOpAt
  <2> HIDE DEF Good
  <2>2. Reads(S, trace, 0, r[0])
    BY <1>4, <1>6, <2>1
  <2> QED
    BY <2>1, <2>2 DEF Good
<1>8. ASSUME NEW k \in 0 .. N - 1, k \in Good PROVE k + 1 \in Good
  <2> DEFINE n == k + 1
  <2>1. n \in 1 .. N /\ n \in 0 .. N /\ n - 1 = k /\ k \in Nat /\ n \in 1 .. Len(trace)
    BY <1>3 DEF N
  <2>2. Reads(S, trace, k, r[k]) /\ r[n] = ReadEvent(r[k], trace[n]) /\ trace[n] \in TraceEvent
    BY <1>5, <1>8, <2>1
  <2> HIDE DEF n, Good
  <2>3. CASE trace[n].kind = "Op"
    <3>1. Reads(S, trace, n, r[n])
      BY <2>1, <2>2, <2>3, OpReads
    <3> QED
      BY <2>1, <3>1 DEF Good, n
  <2>4. CASE trace[n].kind # "Op"
    <3> NoOpAt(trace, n) /\ NoOpAt(trace, k + 1)
      BY <2>4 DEF NoOpAt, n
    <3>1. PICK mind, active :
            /\ r[n] = [mind |-> mind, active |-> active, piece |-> <<>>]
            /\ mind.pending \in Seq(S) /\ active \in Seq(Int)
      BY <2>1, <2>2, <2>4, EdgeReads
    <3>2. Reads(S, trace, n, r[n])
      BY <1>6, <2>1, <3>1
    <3> QED
      BY <2>1, <3>2 DEF Good, n
  <2> QED
    BY <2>3, <2>4
<1>9. N \in Good
  <2> HIDE DEF Good
  <2>1. \A k \in 0 .. N - 1 : k \in Good => k + 1 \in Good
    BY <1>8
  <2>2. 0 .. N \subseteq Good
    BY <1>3, <1>7, <2>1, Reading!UpTo
  <2> QED
    BY <1>3, <2>2
<1>10. Reads(S, trace, N, r[N])
  BY <1>9
<1>11. last = ReadEvent(r[N], exit)
  <2>1. N + 1 \in 1 .. Len(full) /\ (N + 1) - 1 = N
    BY <1>3
  <2> QED
    BY <1>3, <1>4, <2>1
<1>12. PICK mind : \E active \in Seq(Int) :
         /\ last = [mind |-> mind, active |-> active, piece |-> <<>>]
         /\ mind.pending \in Seq(S)
  <2> HIDE DEF Good, base
  <2>1. N \in Nat /\ NoOpAt(trace, N + 1)
    BY <1>3 DEF N, NoOpAt
  <2>2. \E mind : \E active \in Seq(Int) :
           /\ ReadEvent(r[N], exit) = [mind |-> mind, active |-> active, piece |-> <<>>]
           /\ mind.pending \in Seq(S)
    BY <1>2, <1>10, <2>1, EdgeReads
  <2> QED
    BY <1>11, <2>2, Zenon
<1>13. last.mind = mind
  BY <1>12
<1> HIDE DEF Good, base
<1> QED
  BY <1>1, <1>12, <1>13

LEMMA LearnedFits ==
  ASSUME NEW S, NEW trace \in Seq(TraceEvent), Admits(S, trace),
         pending_jit \in Seq(S), NEW W, NEW shown \in Limits(W),
         Mind \in Grown(Mind, shown)
  PROVE  Learned(trace).mind.pending \in Seq(S)
<1> DEFINE read == ReadTrace(trace)
<1>1. read.pending \in Seq(S) /\ read \in Minds
  BY TraceFits, TraceKeeps DEF Grown
<1> HIDE DEF read
<1>2. [read EXCEPT !.patterns = Decay(@)].pending = read.pending
  BY <1>1 DEF Minds
<1>3. Mind.pending = pending_jit
  BY DEF Mind
<1>4. Learned(trace).mind \in {Mind, read, [read EXCEPT !.patterns = Decay(@)]}
  BY DEF Learned, read
<1> QED
  BY <1>1, <1>2, <1>3, <1>4

=============================================================================
