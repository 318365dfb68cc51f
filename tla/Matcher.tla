------------------------------ MODULE Matcher ------------------------------
(***************************************************************************)
(* lib/matcher.c: a matcher kept by a finder while its prompt is open, and  *)
(* asked again (commandt_matcher_run) at every change of the query.  A run  *)
(* shares the candidates between worker threads, each of which keeps its    *)
(* best `Limit` in a heap; the main thread merges, sorts and cuts them.     *)
(* Two shortcuts carry state from run to run and from candidate to          *)
(* candidate: a candidate that scored 0 is skipped while queries extend the *)
(* last one, and one that cannot reach a full heap's worst score is not     *)
(* scored at all.                                                           *)
(*                                                                          *)
(* A heap is the set of its entries and its root any worst one of them:     *)
(* module Heap shows that the array of heap.c behaves so.                   *)
(***************************************************************************)
EXTENDS Ranking

CONSTANTS
  Count,            \* scanner->count
  Threads,          \* the `threads` option
  MaxThreads,       \* MAX_THREADS (128)
  ThreadThreshold,  \* THREAD_THRESHOLD (1000): fewer candidates, one worker
  ChunkSize,        \* chunk_size (64)
  Extends(_, _),    \* Extends(n, m): m is a prefix of n
  Bound,            \* Bound[n][c]: the upper bound of line 373, slack included
  NoNeedle,         \* last_needle == NULL
  Unset,            \* UNSET_SCORE (FLT_MAX)
  Erase             \* may the user type a query that does not extend the last?

ASSUME SizeAssumption ==
  /\ Count \in Nat
  /\ Haystacks = 0 .. (Count - 1)
  /\ Limit \in Nat \ {0}
  /\ Threads \in Nat \ {0}
  /\ MaxThreads \in Nat \ {0}
  /\ ThreadThreshold \in Nat
  /\ ChunkSize \in Nat \ {0}

ASSUME NeedleAssumption ==
  /\ NoNeedle \notin Needles
  /\ Alphabetic \subseteq Needles
  /\ Erase \in BOOLEAN
  /\ \A n, m \in Needles : Extends(n, m) \in BOOLEAN

ASSUME ScoreAssumption ==
  /\ Unset \notin Int
  /\ ScoreOf \in [Needles -> [Haystacks -> Int]]
  /\ Bound \in [Needles -> [Haystacks -> Int]]
  /\ Rank \in [Haystacks -> Nat]

\* What lines 358-381 rely on: no candidate scores above its bound.
ASSUME BoundAssumption ==
  \A n \in Needles \ Alphabetic, c \in Haystacks : ScoreOf[n][c] <= Bound[n][c]

VARIABLES
  score,       \* haystack->score of each candidate
  needle,      \* matcher->needle during a run
  lastNeedle,  \* matcher->last_needle
  phase,       \* the main thread: "idle", "spawning" or "joining"
  spawned,     \* workers started, the main thread's own (the last one) included
  joined,      \* threads joined
  at,          \* the loop index i of each worker
  heap,        \* the entries of each worker's heap
  matches,     \* the entries copied into `matches`
  results      \* the last result_t returned, and the query it answers

vars == <<score, needle, lastNeedle, phase, spawned, joined, at, heap, matches, results>>

\* worker_count (lines 58-60 and 171-174).
WorkerCount ==
  IF Count < ThreadThreshold THEN 1
  ELSE IF Threads > MaxThreads THEN MaxThreads ELSE Threads

Workers == 0 .. (WorkerCount - 1)
MainWorker == WorkerCount - 1

\* Chunks of ChunkSize candidates are dealt to the workers in turn.
FirstIndex(w) == w * ChunkSize

\* Mutant: the stride forgets the other workers.
NextIndexUnstrided(i) == i + 1

NextIndex(i) ==
  IF (i + 1) % ChunkSize = 0 THEN i + 1 + (WorkerCount - 1) * ChunkSize ELSE i + 1

NoWork == [w \in Workers |-> {}]

Init ==
  /\ score = [c \in Haystacks |-> Unset]
  /\ needle = NoNeedle
  /\ lastNeedle = NoNeedle
  /\ phase = "idle"
  /\ spawned = 0
  /\ joined = 0
  /\ at = [w \in Workers |-> FirstIndex(w)]
  /\ heap = NoWork
  /\ matches = {}
  /\ results = [needle |-> NoNeedle, matches |-> <<>>]

-----------------------------------------------------------------------------
(***************************************************************************)
(* The main thread.                                                         *)
(***************************************************************************)

\* What is left of last_needle when a run for n starts: nothing if n does not extend it.
NarrowedFrom(n) ==
  IF lastNeedle # NoNeedle /\ Extends(n, lastNeedle) THEN lastNeedle ELSE NoNeedle

\* commandt_matcher_run up to the loop that starts the workers.
StartRun(n) ==
  /\ phase = "idle"
  /\ ~ Erase /\ lastNeedle # NoNeedle => Extends(n, lastNeedle)
  /\ needle' = n
  /\ lastNeedle' = NarrowedFrom(n)
  /\ phase' = "spawning"
  /\ spawned' = 0
  /\ joined' = 0
  /\ at' = [w \in Workers |-> FirstIndex(w)]
  /\ UNCHANGED <<score, heap, matches, results>>

\* pthread_create() of the next worker or, for the last one, the main thread's own call.
Spawn ==
  /\ phase = "spawning"
  /\ spawned < WorkerCount
  /\ spawned' = spawned + 1
  /\ UNCHANGED <<score, needle, lastNeedle, phase, joined, at, heap, matches, results>>

\* The main thread copies the heap it filled itself.
CollectOwn ==
  /\ phase = "spawning"
  /\ spawned = WorkerCount
  /\ at[MainWorker] >= Count
  /\ matches' = matches \cup heap[MainWorker]
  /\ heap' = [heap EXCEPT ![MainWorker] = {}]
  /\ phase' = "joining"
  /\ UNCHANGED <<score, needle, lastNeedle, spawned, joined, at, results>>

\* Mutant: the heap is read before the thread has returned it.
JoinEarly ==
  /\ phase = "joining"
  /\ joined < MainWorker
  /\ matches' = matches \cup heap[joined]
  /\ heap' = [heap EXCEPT ![joined] = {}]
  /\ joined' = joined + 1
  /\ UNCHANGED <<score, needle, lastNeedle, phase, spawned, at, results>>

\* Mutant: the loop of a thread is taken to end exactly at Count.
JoinAtCount ==
  /\ phase = "joining"
  /\ joined < MainWorker
  /\ at[joined] = Count
  /\ matches' = matches \cup heap[joined]
  /\ heap' = [heap EXCEPT ![joined] = {}]
  /\ joined' = joined + 1
  /\ UNCHANGED <<score, needle, lastNeedle, phase, spawned, at, results>>

\* pthread_join() of the next thread, which blocks until it returns its heap.
Join ==
  /\ phase = "joining"
  /\ joined < MainWorker
  /\ at[joined] >= Count
  /\ matches' = matches \cup heap[joined]
  /\ heap' = [heap EXCEPT ![joined] = {}]
  /\ joined' = joined + 1
  /\ UNCHANGED <<score, needle, lastNeedle, phase, spawned, at, results>>

\* Mutant: everything a heap held is shown.
ShownAll == matches

\* What is copied out of the sorted matches: those that score above 0.
Shown == { c \in matches : score[c] > 0 }

\* Sort, cut, remember the query.
Finish ==
  /\ phase = "joining"
  /\ joined = MainWorker
  /\ \E r \in FirstOf(Shown, needle, score) :
       results' = [needle |-> needle, matches |-> r]
  /\ matches' = {}
  /\ lastNeedle' = needle
  /\ phase' = "idle"
  /\ UNCHANGED <<score, needle, spawned, joined, at, heap>>

-----------------------------------------------------------------------------
(***************************************************************************)
(* A worker: get_matches(), one candidate per step.  A worker touches only  *)
(* its own heap and the candidate it is at, so the step is atomic as long   *)
(* as no two workers are at the same candidate (NoSharedHaystack).          *)
(***************************************************************************)

\* Mutant: a hidden dot-file's -1 counts as no match.
SkippableBelow(c) == lastNeedle # NoNeedle /\ score[c] # Unset /\ score[c] <= 0

\* "it didn't match last time and it can't match this time either"
Skippable(c) == lastNeedle # NoNeedle /\ score[c] = 0

\* The entries of H that may be at the root of a heap ordered by cmp_score.
Worst(s, H) == { x \in H : \A y \in H : ~ ScoreBefore(s, x, y) }

\* Mutant: the heap's spare slot is used too.
FullPastLimit(w) == Cardinality(heap[w]) > Limit

Full(w) == Cardinality(heap[w]) = Limit

\* commandt_score() is skipped: c cannot reach the worst score of the full heap.
Prunable(w, c) ==
  /\ needle \notin Alphabetic
  /\ Full(w)
  /\ \E root \in Worst(score, heap[w]) : Bound[needle][c] < score[root]

\* Mutant: a candidate must beat the root's score, not just reach it.
OfferedAbove(w, c, s) ==
  IF s[c] = 0 THEN {heap[w]}
  ELSE IF ~ Full(w) THEN {heap[w] \cup {c}}
  ELSE IF \E root \in Worst(s, heap[w]) : s[c] <= s[root] THEN {heap[w]}
  ELSE { (heap[w] \cup {c}) \ {x} : x \in Worst(s, heap[w] \cup {c}) }

\* The heap after c has been given its score in s: lines 386-398.
Offered(w, c, s) ==
  IF s[c] = 0 THEN {heap[w]}
  ELSE IF ~ Full(w) THEN {heap[w] \cup {c}}
  ELSE IF \E root \in Worst(s, heap[w]) : s[c] < s[root] THEN {heap[w]}
  ELSE { (heap[w] \cup {c}) \ {x} : x \in Worst(s, heap[w] \cup {c}) }

Running(w) == w < spawned /\ at[w] < Count

Advance(w) == at' = [at EXCEPT ![w] = NextIndex(at[w])]

SkipNonMatch(w) ==
  /\ Running(w)
  /\ Skippable(at[w])
  /\ Advance(w)
  /\ UNCHANGED <<score, needle, lastNeedle, phase, spawned, joined, heap, matches, results>>

Prune(w) ==
  /\ Running(w)
  /\ ~ Skippable(at[w])
  /\ Prunable(w, at[w])
  /\ Advance(w)
  /\ UNCHANGED <<score, needle, lastNeedle, phase, spawned, joined, heap, matches, results>>

ScoreCandidate(w) ==
  /\ Running(w)
  /\ ~ Skippable(at[w])
  /\ ~ Prunable(w, at[w])
  /\ score' = [score EXCEPT ![at[w]] = ScoreOf[needle][at[w]]]
  /\ \E H \in Offered(w, at[w], score') : heap' = [heap EXCEPT ![w] = H]
  /\ Advance(w)
  /\ UNCHANGED <<needle, lastNeedle, phase, spawned, joined, matches, results>>

Work(w) == SkipNonMatch(w) \/ Prune(w) \/ ScoreCandidate(w)

Main == Spawn \/ CollectOwn \/ Join \/ Finish

Next ==
  \/ \E n \in Needles : StartRun(n)
  \/ Main
  \/ \E w \in Workers : Work(w)

Safety == Init /\ [][Next]_vars

\* The operating system runs every thread; the user need not type.
Spec == Safety /\ WF_vars(Main) /\ \A w \in Workers : WF_vars(Work(w))

-----------------------------------------------------------------------------

TypeOK ==
  /\ score \in [Haystacks -> Int \cup {Unset}]
  /\ needle \in Needles \cup {NoNeedle}
  /\ lastNeedle \in Needles \cup {NoNeedle}
  /\ phase \in {"idle", "spawning", "joining"}
  /\ spawned \in 0 .. WorkerCount
  /\ joined \in 0 .. MainWorker
  /\ at \in [Workers -> Nat]
  /\ heap \in [Workers -> SUBSET Haystacks]
  /\ \A w \in Workers : Cardinality(heap[w]) <= Limit
  /\ matches \subseteq Haystacks
  /\ results.needle \in Needles \cup {NoNeedle}

\* Two workers never touch the same candidate: haystack->score is a plain float that
\* get_matches() reads and writes with no lock, and no heap holds another worker's entry.
NoSharedHaystack ==
  \A v, w \in Workers :
    v # w => /\ at[v] < Count => at[v] # at[w]
             /\ heap[v] \cap heap[w] = {}

\* Whatever was typed before, a run never shows a candidate the query does not match:
\* no score left over from an earlier query is taken for one of this query.
AnswerMatches ==
  \A i \in DOMAIN results.matches : ScoreOf[results.needle][results.matches[i]] > 0

Abstract == INSTANCE Search WITH
  pending <- (IF phase = "idle" THEN NoNeedle ELSE needle),
  answer <- results

\* The answer is the best `Limit` candidates of all that match, best first, whatever the
\* earlier queries were and however the threads were scheduled.
AnswerIsBest ==
  results.needle # NoNeedle =>
    results.matches \in BestAnswers(results.needle)

\* Every query asked is answered.
AlwaysAnswers ==
  \A n \in Needles : (phase # "idle" /\ needle = n) ~> (results.needle = n)

\* The comment at lines 353-354: a candidate a run skips cannot match its needle.
SkippedCannotMatch ==
  \A w \in Workers :
    Running(w) /\ Skippable(at[w]) => ScoreOf[needle][at[w]] = 0

\* What AnswerIsBest and SkippedCannotMatch need to hold, besides ~ Erase: a candidate
\* that scores 0 does so for every longer query, and for an alphabetic query the heaps,
\* ordered by score, keep those that come first in the alphabet or keep all.
ZeroStays ==
  \A n, m \in Needles, c \in Haystacks :
    Extends(n, m) /\ ScoreOf[m][c] = 0 => ScoreOf[n][c] = 0

OneOrder ==
  \A n \in Alphabetic :
    \/ Cardinality(Matching(n)) <= Limit
    \/ \A a, b \in Matching(n) : ScoreOf[n][a] = ScoreOf[n][b]

\* The matcher answers as the abstract search does, and always does answer.
RefinesSearch == Abstract!Spec
=============================================================================
