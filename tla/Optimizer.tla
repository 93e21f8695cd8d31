----------------------------- MODULE Optimizer -----------------------------
(***************************************************************************)
(* The trace optimizer of analysis.rs: what OptimizerState learns from a   *)
(* trace, what it gives to the JIT, and the snapshot it keeps on disk.     *)
(*                                                                         *)
(* A trace is a sequence of TraceEvents; LoopStart and LoopEnd are never   *)
(* pushed, so a pattern's loop_depth is 0 and its weight 1.  A             *)
(* PatternContext is the word and the instructions it was seen in: its     *)
(* contract and the instructions that are compiled follow from these.      *)
(* Left out is what nothing reads: call_frequencies, dependencies,         *)
(* active_patches, and the counters of PatternStats that stay 0.           *)
(***************************************************************************)
EXTENDS Contract

CONSTANTS
  NoWord,           \* the word_id outside every word (usize::MAX)
  FirstThreshold,   \* evaluations before the first observation (100)
  MinGap,           \* the least number of evaluations between two (50)
  ScoreThreshold,   \* score_threshold, at which a pattern is promoted (100)
  MAX_PENDING_JIT,  \* length of pending_jit (128)
  MaxStrikes,       \* failures a pattern may have to be looked at (5)
  PenaltyScore,     \* what a failure costs (50)
  DecayEvents,      \* events after which scores decay (200000)
  Traces,           \* the traces a caller may hand over
  MaxEvals          \* bound of eval_count

ASSUME LimitAssumption ==
  /\ FirstThreshold \in Nat /\ MinGap \in Nat \ {0} /\ ScoreThreshold \in Nat
  /\ MAX_PENDING_JIT \in Nat /\ MaxStrikes \in Nat /\ PenaltyScore \in Nat
  /\ DecayEvents \in Nat /\ MaxEvals \in Nat

\* An ip is an index; a word is what the operand of a Call says.
TraceEvent == [kind : {"Op"}, ip : Nat, ins : Executed]
                \cup [kind : {"EnterWord"}, word : Int] \cup [kind : {"ExitWord"}]

ASSUME TraceAssumption == \A trace \in Traces : trace \in Seq(TraceEvent)

VARIABLES
  patterns,            \* context_patterns: [failures, score] of each context
  super_instructions,  \* the set of the contexts promoted
  pending_jit,         \* [ip, ctx] records the JIT has not fetched
  decay_counter,
  eval_count,
  next_opt_threshold,
  is_frozen,
  disk                 \* the snapshot file: [kind, state], kind "none", "torn" or
                       \* "saved"

\* A PatternContext.
Context == [word : Int \cup {NoWord}, original_ops : Seq([op : Contracted, data : Int])]

Queued(queue, ctx) == Cardinality({ k \in DOMAIN queue : queue[k].ctx = ctx })

learned == <<patterns, super_instructions, pending_jit>>
pace    == <<decay_counter, eval_count, next_opt_threshold>>
ovars   == <<learned, pace, is_frozen, disk>>

-----------------------------------------------------------------------------
(***************************************************************************)
(* extract_patterns, on the three things it changes: a record of patterns, *)
(* super_instructions and pending_jit.                                     *)
(***************************************************************************)
\* A map with one entry more, or another one for its key.
With(map, key, value) ==
  [k \in DOMAIN map \cup {key} |-> IF k = key THEN value ELSE map[k]]

Unseen == [failures |-> 0, score |-> 0]

StatsOf(known, ctx) == IF ctx \in DOMAIN known THEN known[ctx] ELSE Unseen

\* Mutant of See: the queue is tested after the push.
SeeLate(mind, item) ==
  LET stats == StatsOf(mind.patterns, item.ctx)
      score == stats.score + 1
      due   == score >= ScoreThreshold
  IN  IF stats.failures > MaxStrikes THEN mind
      ELSE [patterns |-> With(mind.patterns, item.ctx, [stats EXCEPT !.score = score]),
            supers   |-> IF due THEN mind.supers \cup {item.ctx} ELSE mind.supers,
            pending  |-> IF due /\ Len(mind.pending) <= MAX_PENDING_JIT
                         THEN Append(mind.pending, item)
                         ELSE mind.pending]

\* Mutant of See: a pattern with too many failures is scored all the same.
SeeStruckOut(mind, item) ==
  LET stats == StatsOf(mind.patterns, item.ctx)
      score == stats.score + 1
      due   == score >= ScoreThreshold
  IN  [patterns |-> With(mind.patterns, item.ctx, [stats EXCEPT !.score = score]),
       supers   |-> IF due THEN mind.supers \cup {item.ctx} ELSE mind.supers,
       pending  |-> IF due /\ Len(mind.pending) < MAX_PENDING_JIT
                    THEN Append(mind.pending, item)
                    ELSE mind.pending]

\* One segment: a pattern that has not failed too often gains a point, and is
\* promoted and queued, again each time it is seen, from the threshold on.
See(mind, item) ==
  LET stats == StatsOf(mind.patterns, item.ctx)
      score == stats.score + 1
      due   == score >= ScoreThreshold
  IN  IF stats.failures > MaxStrikes THEN mind
      ELSE [patterns |-> With(mind.patterns, item.ctx, [stats EXCEPT !.score = score]),
            supers   |-> IF due THEN mind.supers \cup {item.ctx} ELSE mind.supers,
            pending  |-> IF due /\ Len(mind.pending) < MAX_PENDING_JIT
                         THEN Append(mind.pending, item)
                         ELSE mind.pending]

Item(looking, segment) ==
  [ip  |-> looking.piece[looking.offset + 1].ip,
   ctx |-> [word |-> looking.word, original_ops |-> segment]]

\* Mutant of SeeSegment: the segments before the last are not added up.
SeeSegmentAfterOne(looking, segment) ==
  [mind |-> See(looking.mind, Item(looking, segment)), piece |-> looking.piece,
   word |-> looking.word, offset |-> Len(segment)]

\* offset is current_offset, the place of the segment in the piece: the
\* instructions before it that are in no segment are not counted.
SeeSegment(looking, segment) ==
  [mind |-> See(looking.mind, Item(looking, segment)), piece |-> looking.piece,
   word |-> looking.word, offset |-> looking.offset + Len(segment)]

SeeAll(mind, piece, word, segments) ==
  FoldLeft(SeeSegment, [mind |-> mind, piece |-> piece, word |-> word, offset |-> 0],
           segments).mind

\* A piece of a trace: its Op events, and the word they are attributed to.
Extract(mind, piece, word) ==
  SeeAll(mind, piece, word, SafeSegments([i \in DOMAIN piece |-> piece[i].ins]))

(***************************************************************************)
(* observe_runtime_traces: a piece ends where a word is entered or left.   *)
(* What was run before a call is attributed to the word that is called.    *)
(***************************************************************************)
Inmost(active) == IF active = <<>> THEN NoWord ELSE Last(active)

\* The word that the piece before an event is attributed to.
Blamed(active, event) == IF event.kind = "EnterWord" THEN event.word ELSE Inmost(active)

\* The words being run after an event; an exit too many leaves none.
Crossed(active, event) ==
  CASE event.kind = "EnterWord"                  -> Append(active, event.word)
    [] event.kind = "ExitWord" /\ active # <<>> -> Front(active)
    [] OTHER                                     -> <<>>

\* Mutant of ReadEvent: the piece before a call is not cleared.
ReadEventKeepsPiece(reading, event) ==
  IF event.kind = "Op"
  THEN [reading EXCEPT !.piece = Append(@, event)]
  ELSE [mind   |-> Extract(reading.mind, reading.piece, Blamed(reading.active, event)),
        active |-> Crossed(reading.active, event),
        piece  |-> IF event.kind = "EnterWord" THEN reading.piece ELSE <<>>]

ReadEvent(reading, event) ==
  IF event.kind = "Op"
  THEN [reading EXCEPT !.piece = Append(@, event)]
  ELSE [mind   |-> Extract(reading.mind, reading.piece, Blamed(reading.active, event)),
        active |-> Crossed(reading.active, event),
        piece  |-> <<>>]

Mind == [patterns |-> patterns, supers |-> super_instructions, pending |-> pending_jit]

\* The end of a trace is read like the end of a word.
ReadTrace(trace) ==
  FoldLeft(ReadEvent, [mind |-> Mind, active |-> <<>>, piece |-> <<>>],
           Append(trace, [kind |-> "ExitWord"])).mind

\* The score times 0.85, truncated.
Decayed(score) ==
  IF score >= 0 THEN (score * 85) \div 100 ELSE -((-score * 85) \div 100)

\* Mutant of Decay: a pattern whose score is gone is forgotten, failures too.
DecayForgives(known) ==
  LET kept == { ctx \in DOMAIN known : Decayed(known[ctx].score) > 0 }
  IN  [ctx \in kept |-> [known[ctx] EXCEPT !.score = Decayed(@)]]

Decay(known) ==
  LET kept == { ctx \in DOMAIN known :
                  Decayed(known[ctx].score) > 0 \/ known[ctx].failures > 0 }
  IN  [ctx \in kept |-> [known[ctx] EXCEPT !.score = Decayed(@)]]

\* What is known after a trace, and the new decay_counter; a trace of one
\* event is not looked at.
Learned(trace) ==
  LET count == decay_counter + Len(trace)
  IN  CASE is_frozen \/ Len(trace) < 2 -> [mind |-> Mind, count |-> decay_counter]
        [] ~is_frozen /\ Len(trace) >= 2 /\ count > DecayEvents ->
             [mind |-> [ReadTrace(trace) EXCEPT !.patterns = Decay(@)], count |-> 0]
        [] OTHER -> [mind |-> ReadTrace(trace), count |-> count]

Observe(trace) ==
  \E now \in {Learned(trace)} :
    /\ patterns' = now.mind.patterns
    /\ super_instructions' = now.mind.supers
    /\ pending_jit' = now.mind.pending
    /\ decay_counter' = now.count

\* A caller hands its trace over.
ObserveTrace ==
  /\ \E trace \in Traces : Observe(trace)
  /\ UNCHANGED <<eval_count, next_opt_threshold, is_frozen, disk>>

-----------------------------------------------------------------------------
\* should_run_optimizer: the intervals between observations grow by half.
Due == ~is_frozen /\ eval_count + 1 >= next_opt_threshold

CountEval ==
  /\ eval_count' = IF is_frozen THEN eval_count ELSE eval_count + 1
  /\ next_opt_threshold' =
       IF Due THEN next_opt_threshold + Max({next_opt_threshold \div 2, MinGap})
              ELSE next_opt_threshold

ShouldRun ==
  /\ eval_count < MaxEvals
  /\ CountEval
  /\ UNCHANGED <<learned, decay_counter, is_frozen, disk>>

\* penalize_pattern: a context that was forgotten is not found.
Penalize(ctx) ==
  /\ patterns' = IF ctx \in DOMAIN patterns
                 THEN [patterns EXCEPT ![ctx] = [failures |-> @.failures + 1,
                                                 score |-> @.score - PenaltyScore]]
                 ELSE patterns
  /\ UNCHANGED <<super_instructions, pending_jit, pace, is_frozen, disk>>

\* The drain of synchronize_jit.
Drain ==
  /\ pending_jit # <<>>
  /\ pending_jit' = <<>>
  /\ UNCHANGED <<patterns, super_instructions, pace, is_frozen, disk>>

Freeze ==
  /\ ~is_frozen
  /\ is_frozen' = TRUE
  /\ UNCHANGED <<learned, pace, disk>>

-----------------------------------------------------------------------------
(***************************************************************************)
(* The snapshot: JSON of the whole state, written in place.                *)
(***************************************************************************)
State ==
  [patterns |-> patterns, super_instructions |-> super_instructions,
   pending_jit |-> pending_jit, decay_counter |-> decay_counter,
   eval_count |-> eval_count, next_opt_threshold |-> next_opt_threshold,
   is_frozen |-> is_frozen]

Fresh ==
  [patterns |-> <<>>, super_instructions |-> {}, pending_jit |-> <<>>,
   decay_counter |-> 0, eval_count |-> 0, next_opt_threshold |-> FirstThreshold,
   is_frozen |-> FALSE]

\* Mutant of Become: what a snapshot says of promoted patterns is not read.
BecomeUnpromoted(state) ==
  /\ patterns' = state.patterns
  /\ super_instructions' = {}
  /\ pending_jit' = state.pending_jit
  /\ decay_counter' = state.decay_counter
  /\ eval_count' = state.eval_count
  /\ next_opt_threshold' = state.next_opt_threshold
  /\ is_frozen' = state.is_frozen

Become(state) ==
  /\ patterns' = state.patterns
  /\ super_instructions' = state.super_instructions
  /\ pending_jit' = state.pending_jit
  /\ decay_counter' = state.decay_counter
  /\ eval_count' = state.eval_count
  /\ next_opt_threshold' = state.next_opt_threshold
  /\ is_frozen' = state.is_frozen

\* JSON has no keys but strings: serde_json refuses a map of contexts unless
\* it is empty, and save_to_file returns before it opens the file.
Serializable == DOMAIN patterns = {}

\* save_to_file; what it returns is Serializable.
Save ==
  /\ disk' = IF Serializable THEN [kind |-> "saved", state |-> State] ELSE disk
  /\ UNCHANGED <<learned, pace, is_frozen>>

\* The process ends, perhaps in the middle of fs::write.
Restart ==
  /\ \/ UNCHANGED disk
     \/ Serializable /\ disk' = [kind |-> "torn", state |-> Fresh]
  /\ Become(Fresh)

\* load_from_file.  A file that is not there or does not parse is an error,
\* and leaves the caller the state it has.
Load ==
  /\ disk.kind = "saved"
  /\ Become(disk.state)
  /\ UNCHANGED disk

-----------------------------------------------------------------------------
OInit ==
  /\ patterns = Fresh.patterns /\ super_instructions = {} /\ pending_jit = <<>>
  /\ decay_counter = 0 /\ eval_count = 0 /\ next_opt_threshold = FirstThreshold
  /\ is_frozen = FALSE
  /\ disk = [kind |-> "none", state |-> Fresh]

\* A block that traps is one of a pattern that was promoted.
LearnStep ==
  \/ ObserveTrace \/ ShouldRun \/ Drain \/ Freeze
  \/ \E ctx \in super_instructions : Penalize(ctx)

KeepStep == Save \/ Restart \/ Load

ONext == LearnStep \/ KeepStep

OSpec == OInit /\ [][ONext]_ovars

-----------------------------------------------------------------------------
(***************************************************************************)
(* Properties.                                                             *)
(***************************************************************************)
\* The events s .. e of a trace are one piece: no Op event is left out at
\* either end.
IsPiece(trace, s, e) ==
  /\ \A i \in s .. e : i \in DOMAIN trace /\ trace[i].kind = "Op"
  /\ \A i \in {s - 1, e + 1} \cap DOMAIN trace : trace[i].kind # "Op"

\* A piece that is cut without a gap: it has no jumps, which the validation may
\* refuse, and of the ops without a contract only one that ends it.
IsStraight(trace, s, e) ==
  \A i \in s .. e : /\ trace[i].ins.op \notin {"Jump", "JZ"}
                    /\ i < e => trace[i].ins.op \in Contracted

Stats == [failures : Nat, score : Int]

StateOK(state) ==
  /\ DOMAIN state.patterns \subseteq Context
  /\ state.patterns \in [DOMAIN state.patterns -> Stats]
  /\ state.super_instructions \subseteq Context
  /\ state.pending_jit \in Seq([ip : Nat, ctx : Context])
  /\ Len(state.pending_jit) <= MAX_PENDING_JIT
  /\ state.decay_counter \in 0 .. DecayEvents /\ state.eval_count \in Nat
  /\ state.next_opt_threshold \in Nat /\ state.is_frozen \in BOOLEAN

\* The types, and the bound of the queue, whatever is observed between two
\* visits of the JIT and whatever a snapshot keeps and brings back.
LearnTypeOK ==
  /\ StateOK(State)
  /\ disk.kind \in {"none", "torn", "saved"} /\ StateOK(disk.state)

\* What waits for the JIT was promoted, by this process or by the one whose
\* snapshot was loaded.
QueuedIsPromoted ==
  \A k \in DOMAIN pending_jit : pending_jit[k].ctx \in super_instructions

\* Until the process ends or a snapshot replaces the state, no failure of a
\* pattern is forgotten: not by a later observation and not by the decay of
\* its score.
StrikesAreKept ==
  [][Load \/ Restart \/
     \A ctx \in DOMAIN patterns :
       patterns[ctx].failures > 0 =>
         /\ ctx \in DOMAIN patterns'
         /\ patterns'[ctx].failures >= patterns[ctx].failures]_ovars

\* learning.md:31.  A pattern with too many failures is not queued again:
\* the queue gets no more of it than it had.
StruckOutStaysOut ==
  [][Load \/ Restart \/
     \A ctx \in DOMAIN patterns :
       patterns[ctx].failures > MaxStrikes =>
         Queued(pending_jit', ctx) <= Queued(pending_jit, ctx)]_ovars

=============================================================================
