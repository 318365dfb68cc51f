--------------------------- MODULE MatcherProofs ---------------------------
(***************************************************************************)
(* What module Matcher's runs check on a few candidates, proved for every   *)
(* number of candidates, threads and chunks, every limit and every score.   *)
(***************************************************************************)
EXTENDS Matcher, TLAPS, FiniteSetTheorems

LEMMA WorkerCountType == WorkerCount \in Nat \ {0} /\ MainWorker \in Nat
BY SizeAssumption DEF WorkerCount, MainWorker

-----------------------------------------------------------------------------
(***************************************************************************)
(* Division with remainder, by a number the prover does not know.           *)
(***************************************************************************)

LEMMA ProductBelow ==
  ASSUME NEW m \in Nat, NEW a \in Nat, NEW b \in Nat, a < b
  PROVE  a * m + m <= b * m
<1>1. PICK d \in Nat : b = a + 1 + d
  <2>1. b - a - 1 \in Nat /\ b = a + 1 + (b - a - 1)
    OBVIOUS
  <2> QED
    BY <2>1
<1>2. b * m = a * m + m + d * m
  BY <1>1
<1>3. d * m \in Nat /\ a * m \in Nat
  OBVIOUS
<1> QED
  BY <1>2, <1>3

LEMMA QuotientUnique ==
  ASSUME NEW m \in Nat, NEW a \in Nat, NEW b \in Nat,
         NEW r \in 0 .. (m - 1), NEW s \in 0 .. (m - 1),
         a * m + r = b * m + s
  PROVE  a = b /\ r = s
<1>1. a * m \in Nat /\ b * m \in Nat
  OBVIOUS
<1>2. ~ (a < b)
  BY <1>1, ProductBelow
<1>3. ~ (b < a)
  BY <1>1, ProductBelow
<1> QED
  BY <1>1, <1>2, <1>3

LEMMA RemainderIs ==
  ASSUME NEW m \in Nat \ {0}, NEW a \in Nat, NEW r \in 0 .. (m - 1)
  PROVE  (a * m + r) % m = r
<1> DEFINE n == a * m + r
<1>1. n \in Nat
  OBVIOUS
<1>2. n \div m \in Nat /\ n % m \in 0 .. (m - 1) /\ n = (n \div m) * m + (n % m)
  <2> HIDE DEF n
  <2> QED
    BY <1>1
<1> QED
  BY <1>2, QuotientUnique

-----------------------------------------------------------------------------
(***************************************************************************)
(* The chunks: no two workers are dealt the same candidate, and the index   *)
(* of a worker stays in its own chunks.                                     *)
(***************************************************************************)

\* The candidates dealt to worker w, and as many indices past Count.
Dealt(w) ==
  { (k * WorkerCount + w) * ChunkSize + r : k \in Nat, r \in 0 .. (ChunkSize - 1) }

LEMMA DealtDisjoint ==
  ASSUME NEW v \in Workers, NEW w \in Workers, NEW i \in Dealt(v), i \in Dealt(w)
  PROVE  v = w
<1>1. /\ WorkerCount \in Nat /\ ChunkSize \in Nat
      /\ v \in 0 .. (WorkerCount - 1) /\ w \in 0 .. (WorkerCount - 1)
  BY WorkerCountType, SizeAssumption DEF Workers
<1>2. PICK j \in Nat, r \in 0 .. (ChunkSize - 1) :
        i = (j * WorkerCount + v) * ChunkSize + r
  BY DEF Dealt
<1>3. PICK k \in Nat, s \in 0 .. (ChunkSize - 1) :
        i = (k * WorkerCount + w) * ChunkSize + s
  BY DEF Dealt
<1>4. j * WorkerCount + v \in Nat /\ k * WorkerCount + w \in Nat
  BY <1>1
<1>5. j * WorkerCount + v = k * WorkerCount + w
  BY <1>1, <1>2, <1>3, <1>4, QuotientUnique
<1> QED
  BY <1>1, <1>5, QuotientUnique

LEMMA FirstIndexDealt ==
  ASSUME NEW w \in Workers
  PROVE  FirstIndex(w) \in Dealt(w)
<1>1. WorkerCount \in Nat /\ ChunkSize \in Nat \ {0} /\ w \in Nat
  BY WorkerCountType, SizeAssumption DEF Workers
<1>2. FirstIndex(w) = (0 * WorkerCount + w) * ChunkSize + 0
  BY <1>1 DEF FirstIndex
<1>3. 0 \in Nat /\ 0 \in 0 .. (ChunkSize - 1)
  BY <1>1
<1> QED
  BY <1>2, <1>3 DEF Dealt

LEMMA NextIndexDealt ==
  ASSUME NEW w \in Workers, NEW i \in Dealt(w)
  PROVE  NextIndex(i) \in Dealt(w)
<1>1. WorkerCount \in Nat \ {0} /\ ChunkSize \in Nat \ {0} /\ w \in Nat
  BY WorkerCountType, SizeAssumption DEF Workers
<1>2. PICK k \in Nat, r \in 0 .. (ChunkSize - 1) :
        i = (k * WorkerCount + w) * ChunkSize + r
  BY DEF Dealt
<1> DEFINE q == k * WorkerCount + w
<1>3. q \in Nat /\ q * ChunkSize \in Nat
  BY <1>1
<1>4. CASE r + 1 < ChunkSize
  <2>1. r + 1 \in 0 .. (ChunkSize - 1) /\ i + 1 = q * ChunkSize + (r + 1)
    BY <1>1, <1>2, <1>3, <1>4
  <2>2. (i + 1) % ChunkSize = r + 1
    <3> HIDE DEF q
    <3> QED
      BY <1>1, <1>3, <2>1, RemainderIs
  <2>3. NextIndex(i) = i + 1
    BY <1>1, <1>2, <2>2 DEF NextIndex
  <2> QED
    BY <2>1, <2>3 DEF Dealt
<1>5. CASE ~ (r + 1 < ChunkSize)
  <2>1. i + 1 = (q + 1) * ChunkSize + 0 /\ 0 \in 0 .. (ChunkSize - 1)
    <3>1. r + 1 = ChunkSize
      BY <1>1, <1>5
    <3>2. (q + 1) * ChunkSize = q * ChunkSize + ChunkSize
      <4> HIDE DEF q
      <4> QED
        BY <1>1, <1>3
    <3> QED
      BY <1>1, <1>2, <1>3, <3>1, <3>2
  <2>2. (i + 1) % ChunkSize = 0
    <3>1. q + 1 \in Nat
      BY <1>3
    <3> HIDE DEF q
    <3> QED
      BY <1>1, <2>1, <3>1, RemainderIs
  <2>3. NextIndex(i) = ((k + 1) * WorkerCount + w) * ChunkSize + 0
    <3>1. NextIndex(i) = (q + 1) * ChunkSize + (WorkerCount - 1) * ChunkSize
      BY <1>1, <2>1, <2>2 DEF NextIndex
    <3>2. @ = (q + 1 + (WorkerCount - 1)) * ChunkSize
      <4> HIDE DEF q
      <4> QED
        BY <1>1, <1>3
    <3>3. q + 1 + (WorkerCount - 1) = (k + 1) * WorkerCount + w
      BY <1>1
    <3>4. ((k + 1) * WorkerCount + w) * ChunkSize \in Nat
      BY <1>1
    <3> QED
      BY <3>1, <3>2, <3>3, <3>4
  <2>4. k + 1 \in Nat
    OBVIOUS
  <2> QED
    BY <2>1, <2>3, <2>4 DEF Dealt
<1> QED
  BY <1>4, <1>5

-----------------------------------------------------------------------------
(***************************************************************************)
(* The inductive invariant.                                                 *)
(***************************************************************************)

\* Every worker is, and takes candidates from, where it was dealt them.
Dealing == \A w \in Workers : at[w] \in Dealt(w) /\ heap[w] \subseteq Dealt(w)

\* A worker that runs has a query.
Asked == phase # "idle" \/ spawned > 0 => needle \in Needles

Done(w) == at[w] >= Count /\ heap[w] = {}

\* What the main thread has collected, and that nothing outlives a run but the scores.
Collected ==
  /\ phase = "idle" =>
       matches = {} /\ \A w \in Workers : heap[w] = {} /\ (w < spawned => at[w] >= Count)
  /\ phase = "spawning" => matches = {} /\ joined = 0
  /\ phase = "joining" =>
       /\ spawned = WorkerCount
       /\ Done(MainWorker)
       /\ \A w \in 0 .. (joined - 1) : Done(w)

\* A candidate is held with the score of this run's query.
Fresh ==
  /\ \A c \in matches : score[c] = ScoreOf[needle][c]
  /\ \A w \in Workers : \A c \in heap[w] : score[c] = ScoreOf[needle][c]

IInv == TypeOK /\ Dealing /\ Asked /\ Collected /\ Fresh /\ AnswerMatches

\* What can be at a full or a growing heap after a candidate was offered to it.
LEMMA OfferedKeeps ==
  ASSUME TypeOK, NEW w \in Workers, NEW c \in Haystacks, NEW s,
         NEW H \in Offered(w, c, s)
  PROVE  H \subseteq heap[w] \cup {c} /\ Cardinality(H) <= Limit
<1>1. heap[w] \subseteq Haystacks /\ Cardinality(heap[w]) <= Limit
  BY DEF TypeOK
<1>2. IsFiniteSet(heap[w]) /\ Cardinality(heap[w]) \in Nat /\ Limit \in Nat
  <2>1. IsFiniteSet(Haystacks)
    BY SizeAssumption, FS_Interval
  <2> QED
    BY <1>1, <2>1, FS_Subset, FS_CardinalityType, SizeAssumption
<1>3. /\ IsFiniteSet(heap[w] \cup {c})
      /\ Cardinality(heap[w] \cup {c}) \in Nat
      /\ Cardinality(heap[w] \cup {c}) <= Cardinality(heap[w]) + 1
  BY <1>2, FS_AddElement
<1>4. CASE H = heap[w]
  BY <1>1, <1>4
<1>5. CASE ~ Full(w) /\ H = heap[w] \cup {c}
  BY <1>1, <1>2, <1>3, <1>5 DEF Full
<1>6. CASE \E x \in Worst(s, heap[w] \cup {c}) : H = (heap[w] \cup {c}) \ {x}
  <2>1. PICK x \in heap[w] \cup {c} : H = (heap[w] \cup {c}) \ {x}
    BY <1>6 DEF Worst
  <2>2. Cardinality(H) = Cardinality(heap[w] \cup {c}) - 1
    BY <1>3, <2>1, FS_RemoveElement
  <2> QED
    BY <1>1, <1>2, <1>3, <2>1, <2>2
<1> QED
  BY <1>4, <1>5, <1>6 DEF Offered

LEMMA InitIInv == Init => IInv
<1> SUFFICES ASSUME Init PROVE IInv
  OBVIOUS
<1>1. \A w \in Workers : at[w] \in Dealt(w) /\ at[w] \in Nat
  BY FirstIndexDealt, SizeAssumption, WorkerCountType DEF Init, FirstIndex, Workers
<1>2. TypeOK
  <2>1. Cardinality({}) = 0
    BY FS_EmptySet
  <2> QED
    BY <1>1, <2>1, SizeAssumption, WorkerCountType DEF Init, TypeOK, NoWork
<1>3. Dealing /\ Fresh
  BY <1>1 DEF Init, Dealing, Fresh, NoWork
<1>4. Asked /\ Collected
  BY <1>1, WorkerCountType DEF Init, Asked, Collected, NoWork, Workers
<1>5. AnswerMatches
  BY DEF Init, AnswerMatches
<1> QED
  BY <1>2, <1>3, <1>4, <1>5 DEF IInv

LEMMA StartRunKeeps ==
  ASSUME IInv, NEW n \in Needles, StartRun(n)
  PROVE  IInv'
<1>1. \A w \in Workers : FirstIndex(w) \in Dealt(w) /\ FirstIndex(w) \in Nat
  BY FirstIndexDealt, SizeAssumption, WorkerCountType DEF FirstIndex, Workers
<1>2. TypeOK'
  BY <1>1, WorkerCountType DEF IInv, TypeOK, StartRun, NarrowedFrom, MainWorker
<1>3. Dealing'
  BY <1>1 DEF IInv, Dealing, StartRun
<1>4. Asked' /\ Collected'
  BY DEF IInv, Asked, Collected, StartRun
<1>5. Fresh'
  BY DEF IInv, Collected, Fresh, StartRun
<1>6. AnswerMatches'
  BY DEF IInv, AnswerMatches, StartRun
<1> QED
  BY <1>2, <1>3, <1>4, <1>5, <1>6 DEF IInv

LEMMA SpawnKeeps ==
  ASSUME IInv, Spawn
  PROVE  IInv'
<1>1. TypeOK'
  BY WorkerCountType DEF IInv, TypeOK, Spawn
<1>2. Dealing' /\ Fresh' /\ AnswerMatches'
  BY DEF IInv, Dealing, Fresh, AnswerMatches, Spawn
<1>3. Asked' /\ Collected'
  BY DEF IInv, Asked, Collected, Spawn
<1> QED
  BY <1>1, <1>2, <1>3 DEF IInv

LEMMA CollectOwnKeeps ==
  ASSUME IInv, CollectOwn
  PROVE  IInv'
<1>1. MainWorker \in Workers /\ MainWorker \in Nat
  BY WorkerCountType DEF MainWorker, Workers
<1>2. /\ heap'[MainWorker] = {}
      /\ \A w \in Workers : w # MainWorker => heap'[w] = heap[w]
      /\ heap' \in [Workers -> SUBSET Haystacks]
  BY <1>1 DEF IInv, TypeOK, CollectOwn
<1>3. TypeOK'
  <2>1. Cardinality({}) = 0 /\ 0 <= Limit
    BY FS_EmptySet, SizeAssumption
  <2>2. \A w \in Workers : Cardinality(heap'[w]) <= Limit
    BY <1>2, <2>1 DEF IInv, TypeOK
  <2>3. matches' \subseteq Haystacks
    BY <1>1 DEF IInv, TypeOK, CollectOwn
  <2> QED
    BY <1>2, <2>2, <2>3 DEF IInv, TypeOK, CollectOwn
<1>4. Dealing' /\ Fresh'
  BY <1>1, <1>2 DEF IInv, Dealing, Fresh, CollectOwn
<1>5. Asked' /\ AnswerMatches'
  BY DEF IInv, Asked, AnswerMatches, CollectOwn
<1>6. Collected'
  <2>1. joined = 0
    BY DEF IInv, Collected, CollectOwn
  <2> QED
    BY <1>1, <1>2, <2>1 DEF IInv, Collected, Done, CollectOwn
<1> QED
  BY <1>3, <1>4, <1>5, <1>6 DEF IInv

LEMMA JoinKeeps ==
  ASSUME IInv, Join
  PROVE  IInv'
<1>1. joined \in Workers /\ joined \in Nat /\ joined < MainWorker /\ MainWorker \in Nat
  BY WorkerCountType DEF IInv, TypeOK, Join, MainWorker, Workers
<1>2. /\ heap'[joined] = {}
      /\ \A w \in Workers : w # joined => heap'[w] = heap[w]
      /\ heap' \in [Workers -> SUBSET Haystacks]
  BY <1>1 DEF IInv, TypeOK, Join
<1>3. TypeOK'
  <2>1. Cardinality({}) = 0 /\ 0 <= Limit
    BY FS_EmptySet, SizeAssumption
  <2>2. \A w \in Workers : Cardinality(heap'[w]) <= Limit
    BY <1>2, <2>1 DEF IInv, TypeOK
  <2>3. matches' \subseteq Haystacks /\ joined' \in 0 .. MainWorker
    BY <1>1 DEF IInv, TypeOK, Join
  <2> QED
    BY <1>2, <2>2, <2>3 DEF IInv, TypeOK, Join
<1>4. Dealing' /\ Fresh'
  BY <1>1, <1>2 DEF IInv, Dealing, Fresh, Join
<1>5. Asked' /\ AnswerMatches'
  BY DEF IInv, Asked, AnswerMatches, Join
<1>6. Collected'
  <2>1. \A w \in 0 .. joined : w \in Workers
    BY <1>1 DEF Workers, MainWorker
  <2>2. MainWorker \in Workers
    BY <1>1 DEF Workers, MainWorker
  <2> QED
    BY <1>1, <1>2, <2>1, <2>2 DEF IInv, Collected, Done, Join
<1> QED
  BY <1>3, <1>4, <1>5, <1>6 DEF IInv

LEMMA FinishKeeps ==
  ASSUME IInv, Finish
  PROVE  IInv'
<1>1. needle \in Needles
  BY DEF IInv, Asked, Finish
<1>2. PICK r \in FirstOf(Shown, needle, score) : results' = [needle |-> needle, matches |-> r]
  BY DEF Finish
<1>3. TypeOK'
  BY <1>1, <1>2 DEF IInv, TypeOK, Finish
<1>4. Dealing'
  BY DEF IInv, Dealing, Finish
<1>5. Asked'
  BY <1>1 DEF Asked, Finish
<1>6. Collected'
  <2>1. ASSUME NEW w \in Workers PROVE Done(w)
    <3>1. w = MainWorker \/ w \in 0 .. (joined - 1)
      BY WorkerCountType DEF Workers, MainWorker, Finish
    <3> QED
      BY <3>1 DEF IInv, Collected, Finish
  <2> QED
    BY <2>1 DEF Collected, Done, Finish
<1>7. Fresh'
  BY DEF IInv, Fresh, Finish
<1>8. AnswerMatches'
  <2>1. r \in [1 .. Fits(Shown) -> Shown]
    BY DEF FirstOf
  <2>2. \A i \in DOMAIN r : r[i] \in Shown
    BY <2>1
  <2>3. \A c \in Shown : ScoreOf[needle][c] > 0
    BY DEF IInv, Fresh, Shown
  <2> QED
    BY <1>2, <2>2, <2>3 DEF AnswerMatches
<1> QED
  BY <1>3, <1>4, <1>5, <1>6, <1>7, <1>8 DEF IInv

-----------------------------------------------------------------------------
(***************************************************************************)
(* The workers.                                                             *)
(***************************************************************************)

\* A running worker is at a candidate of its own, and has not been collected.
LEMMA RunningWorker ==
  ASSUME IInv, NEW w \in Workers, Running(w)
  PROVE  /\ at[w] \in Haystacks
         /\ needle \in Needles
         /\ phase # "idle"
         /\ phase = "joining" => w # MainWorker /\ w \notin 0 .. (joined - 1)
<1>1. at[w] \in Nat /\ at[w] < Count /\ w < spawned /\ w \in Nat
  BY WorkerCountType DEF IInv, TypeOK, Running, Workers
<1>2. at[w] \in Haystacks
  BY <1>1, SizeAssumption
<1>3. phase # "idle"
  BY <1>1, SizeAssumption DEF IInv, Collected
<1>4. needle \in Needles
  BY <1>3 DEF IInv, Asked
<1>5. ~ (at[w] >= Count)
  BY <1>1, SizeAssumption
<1> QED
  BY <1>2, <1>3, <1>4, <1>5 DEF IInv, Collected, Done

LEMMA AdvanceKeeps ==
  ASSUME IInv, NEW w \in Workers, Running(w), Advance(w)
  PROVE  /\ at' \in [Workers -> Nat]
         /\ at'[w] \in Dealt(w)
         /\ \A v \in Workers : v # w => at'[v] = at[v]
<1>1. at[w] \in Dealt(w) /\ at \in [Workers -> Nat]
  BY DEF IInv, Dealing, TypeOK
<1>2. NextIndex(at[w]) \in Dealt(w)
  BY <1>1, NextIndexDealt
<1>3. NextIndex(at[w]) \in Nat
  <2>1. WorkerCount - 1 \in Nat /\ ChunkSize \in Nat
    BY WorkerCountType, SizeAssumption
  <2>2. (WorkerCount - 1) * ChunkSize \in Nat
    BY <2>1
  <2> QED
    BY <1>1, <2>2 DEF NextIndex
<1> QED
  BY <1>1, <1>2, <1>3 DEF Advance

\* SkipNonMatch and Prune leave everything but the worker's index alone.
LEMMA PassKeeps ==
  ASSUME IInv, NEW w \in Workers, Running(w), Advance(w),
         UNCHANGED <<score, needle, lastNeedle, phase, spawned, joined, heap, matches, results>>
  PROVE  IInv'
<1>1. /\ at' \in [Workers -> Nat]
      /\ at'[w] \in Dealt(w)
      /\ \A v \in Workers : v # w => at'[v] = at[v]
  BY AdvanceKeeps
<1>2. TypeOK' /\ Fresh' /\ Asked' /\ AnswerMatches'
  BY <1>1 DEF IInv, TypeOK, Fresh, Asked, AnswerMatches
<1>3. Dealing'
  BY <1>1 DEF IInv, Dealing
<1>4. Collected'
  <2>1. phase # "idle"
    BY RunningWorker
  <2>2. phase = "joining" => w # MainWorker /\ w \notin 0 .. (joined - 1)
    BY RunningWorker
  <2>3. MainWorker \in Workers /\ \A v \in 0 .. (joined - 1) : v \in Workers
    BY WorkerCountType DEF IInv, TypeOK, Workers, MainWorker
  <2> QED
    BY <1>1, <2>1, <2>2, <2>3 DEF IInv, Collected, Done
<1> QED
  BY <1>2, <1>3, <1>4 DEF IInv

LEMMA ScoreCandidateKeeps ==
  ASSUME IInv, NEW w \in Workers, ScoreCandidate(w)
  PROVE  IInv'
<1> DEFINE c == at[w]
<1>1. /\ c \in Haystacks
      /\ needle \in Needles
      /\ phase # "idle"
      /\ phase = "joining" => w # MainWorker /\ w \notin 0 .. (joined - 1)
  BY RunningWorker DEF ScoreCandidate
<1>2. /\ at' \in [Workers -> Nat]
      /\ at'[w] \in Dealt(w)
      /\ \A v \in Workers : v # w => at'[v] = at[v]
  BY AdvanceKeeps DEF ScoreCandidate
<1>3. /\ score' \in [Haystacks -> Int \cup {Unset}]
      /\ score'[c] = ScoreOf[needle][c]
      /\ \A x \in Haystacks : x # c => score'[x] = score[x]
  BY <1>1, ScoreAssumption DEF IInv, TypeOK, ScoreCandidate
<1>4. PICK H \in Offered(w, c, score') : heap' = [heap EXCEPT ![w] = H]
  BY DEF ScoreCandidate
<1>5. H \subseteq heap[w] \cup {c} /\ Cardinality(H) <= Limit
  <2> HIDE DEF c
  <2> QED
    BY <1>1, <1>4, OfferedKeeps DEF IInv
<1>6. heap'[w] = H /\ \A v \in Workers : v # w => heap'[v] = heap[v]
  BY <1>4 DEF IInv, TypeOK
<1>7. c \in Dealt(w) /\ heap[w] \subseteq Dealt(w)
  BY DEF IInv, Dealing
<1> HIDE DEF c
<1>8. TypeOK'
  <2>1. heap' \in [Workers -> SUBSET Haystacks]
    BY <1>1, <1>4, <1>5 DEF IInv, TypeOK
  <2>2. \A v \in Workers : Cardinality(heap'[v]) <= Limit
    BY <1>5, <1>6 DEF IInv, TypeOK
  <2> QED
    BY <1>2, <1>3, <2>1, <2>2 DEF IInv, TypeOK, ScoreCandidate
<1>9. Dealing'
  BY <1>2, <1>5, <1>6, <1>7 DEF IInv, Dealing
<1>10. Asked' /\ AnswerMatches'
  BY DEF IInv, Asked, AnswerMatches, ScoreCandidate
<1>11. Collected'
  <2>1. MainWorker \in Workers /\ \A v \in 0 .. (joined - 1) : v \in Workers
    BY WorkerCountType DEF IInv, TypeOK, Workers, MainWorker
  <2> QED
    BY <1>1, <1>2, <1>6, <2>1 DEF IInv, Collected, Done, ScoreCandidate
<1>12. Fresh'
  <2>1. needle' = needle /\ matches' = matches
    BY DEF ScoreCandidate
  <2>2. ASSUME NEW x \in Haystacks, score[x] = ScoreOf[needle][x]
        PROVE  score'[x] = ScoreOf[needle][x]
    BY <1>3, <2>2
  <2>3. \A x \in matches : score'[x] = ScoreOf[needle][x]
    BY <2>2 DEF IInv, TypeOK, Fresh
  <2>4. ASSUME NEW v \in Workers, NEW x \in heap'[v]
        PROVE  score'[x] = ScoreOf[needle][x]
    <3>1. x = c \/ x \in heap[v]
      BY <1>5, <1>6
    <3> QED
      BY <1>3, <2>2, <3>1 DEF IInv, TypeOK, Fresh
  <2> QED
    BY <2>1, <2>3, <2>4 DEF Fresh
<1> QED
  BY <1>8, <1>9, <1>10, <1>11, <1>12 DEF IInv

LEMMA NextKeeps == IInv /\ [Next]_vars => IInv'
<1> SUFFICES ASSUME IInv, [Next]_vars PROVE IInv'
  OBVIOUS
<1>1. CASE \E n \in Needles : StartRun(n)
  BY <1>1, StartRunKeeps
<1>2. CASE Main
  BY <1>2, SpawnKeeps, CollectOwnKeeps, JoinKeeps, FinishKeeps DEF Main
<1>3. ASSUME NEW w \in Workers, Work(w) PROVE IInv'
  <2>1. CASE SkipNonMatch(w)
    BY <2>1, PassKeeps DEF SkipNonMatch
  <2>2. CASE Prune(w)
    BY <2>2, PassKeeps DEF Prune
  <2>3. CASE ScoreCandidate(w)
    BY <2>3, ScoreCandidateKeeps
  <2> QED
    BY <1>3, <2>1, <2>2, <2>3 DEF Work
<1>4. CASE UNCHANGED vars
  BY <1>4 DEF vars, IInv, TypeOK, Dealing, Asked, Collected, Done, Fresh, AnswerMatches
<1> QED
  BY <1>1, <1>2, <1>3, <1>4 DEF Next

THEOREM Invariance == Spec => []IInv
BY InitIInv, NextKeeps, PTL DEF Spec, Safety

\* Every run leaves the matcher's fields within their types, its heaps within the limit.
THEOREM TypeCorrect == Spec => []TypeOK
BY Invariance, PTL DEF IInv

\* No two worker threads ever read or write the score of the same candidate: the lock-free
\* loop of get_matches() is free of data races, however many threads, chunks and candidates.
THEOREM NoDataRace == Spec => []NoSharedHaystack
<1>1. IInv => NoSharedHaystack
  BY DealtDisjoint DEF IInv, Dealing, NoSharedHaystack
<1> QED
  BY <1>1, Invariance, PTL

\* A run never answers with a candidate its query does not match, whatever the matcher was
\* asked before.
THEOREM AnswersMatch == Spec => []AnswerMatches
BY Invariance, PTL DEF IInv
=============================================================================
