---------------------------- MODULE AnswerProofs ----------------------------
(***************************************************************************)
(* The answers of module Matcher are the right ones: those that the         *)
(* abstract Search gives.  This holds as long as the user only types on, a  *)
(* candidate that scores 0 goes on scoring 0 for longer queries (Narrows),  *)
(* and the alphabetic queries do not need an order that the heaps, which    *)
(* order by score, cannot give (OneOrder).                                  *)
(***************************************************************************)
EXTENDS MatcherProofs

-----------------------------------------------------------------------------
(***************************************************************************)
(* Every candidate is dealt to a worker, and a worker passes all of its own *)
(* on its way to the end.                                                   *)
(***************************************************************************)

LEMMA DealtCovers ==
  ASSUME NEW c \in Haystacks
  PROVE  \E w \in Workers : c \in Dealt(w)
<1>1. /\ WorkerCount \in Nat \ {0} /\ ChunkSize \in Nat \ {0} /\ c \in Nat
      /\ Workers = 0 .. (WorkerCount - 1)
  BY WorkerCountType, SizeAssumption DEF Workers
<1> DEFINE q == c \div ChunkSize
           k == q \div WorkerCount
           w == q % WorkerCount
<1>2. q \in Nat /\ c % ChunkSize \in 0 .. (ChunkSize - 1) /\ c = q * ChunkSize + (c % ChunkSize)
  BY <1>1
<1>3. k \in Nat /\ w \in 0 .. (WorkerCount - 1) /\ q = k * WorkerCount + w
  <2> HIDE DEF q
  <2> QED
    BY <1>1, <1>2
<1>4. c = (k * WorkerCount + w) * ChunkSize + (c % ChunkSize)
  BY <1>2, <1>3
<1> HIDE DEF q, k, w
<1>5. c \in Dealt(w)
  BY <1>2, <1>3, <1>4 DEF Dealt
<1> QED
  BY <1>1, <1>3, <1>5

LEMMA NothingBeforeFirst ==
  ASSUME NEW w \in Workers, NEW c \in Dealt(w)
  PROVE  FirstIndex(w) <= c
<1>1. WorkerCount \in Nat \ {0} /\ ChunkSize \in Nat \ {0} /\ w \in Nat
  BY WorkerCountType, SizeAssumption DEF Workers
<1>2. PICK k \in Nat, r \in 0 .. (ChunkSize - 1) :
        c = (k * WorkerCount + w) * ChunkSize + r
  BY DEF Dealt
<1>3. k * WorkerCount \in Nat
  BY <1>1
<1>4. (k * WorkerCount + w) * ChunkSize = (k * WorkerCount) * ChunkSize + w * ChunkSize
  BY <1>1, <1>3
<1>5. (k * WorkerCount) * ChunkSize \in Nat /\ w * ChunkSize \in Nat
  BY <1>1, <1>3
<1> QED
  BY <1>1, <1>2, <1>4, <1>5 DEF FirstIndex

LEMMA NothingBetween ==
  ASSUME NEW w \in Workers, NEW i \in Dealt(w), NEW c \in Dealt(w), c < NextIndex(i)
  PROVE  c <= i
<1>1. WorkerCount \in Nat \ {0} /\ ChunkSize \in Nat \ {0} /\ w \in Nat
  BY WorkerCountType, SizeAssumption DEF Workers
<1>2. PICK k \in Nat, r \in 0 .. (ChunkSize - 1) :
        i = (k * WorkerCount + w) * ChunkSize + r
  BY DEF Dealt
<1>3. PICK l \in Nat, s \in 0 .. (ChunkSize - 1) :
        c = (l * WorkerCount + w) * ChunkSize + s
  BY DEF Dealt
<1> DEFINE q == k * WorkerCount + w
           p == l * WorkerCount + w
<1>4. q \in Nat /\ p \in Nat /\ q * ChunkSize \in Nat /\ p * ChunkSize \in Nat
  BY <1>1
<1>5. CASE l < k
  <2>1. p < q
    BY <1>1, <1>5, ProductBelow
  <2>2. p * ChunkSize + ChunkSize <= q * ChunkSize
    <3> HIDE DEF p, q
    <3> QED
      BY <1>1, <1>4, <2>1, ProductBelow
  <2> QED
    BY <1>1, <1>2, <1>3, <1>4, <2>2
<1>6. CASE l = k
  <2>1. CASE s <= r
    BY <1>1, <1>2, <1>3, <1>4, <1>6, <2>1
  <2>2. CASE ~ (s <= r)
    <3>1. r + 1 \in 0 .. (ChunkSize - 1) /\ i + 1 = q * ChunkSize + (r + 1)
      BY <1>1, <1>2, <1>4, <2>2
    <3>2. (i + 1) % ChunkSize = r + 1
      <4> HIDE DEF q
      <4> QED
        BY <1>1, <1>4, <3>1, RemainderIs
    <3>3. NextIndex(i) = i + 1
      BY <1>1, <3>1, <3>2 DEF NextIndex
    <3>4. c >= i + 1
      BY <1>1, <1>2, <1>3, <1>4, <1>6, <2>2
    <3> QED
      BY <1>1, <1>2, <1>3, <1>4, <3>3, <3>4
  <2> QED
    BY <2>1, <2>2
<1>7. CASE k < l
  <2>1. q + WorkerCount <= p
    <3>1. k * WorkerCount + WorkerCount <= l * WorkerCount
      BY <1>1, <1>7, ProductBelow
    <3> QED
      BY <1>1, <3>1
  <2>2. (q + WorkerCount) * ChunkSize <= p * ChunkSize
    <3> HIDE DEF p, q
    <3>1. q + WorkerCount = p \/ q + WorkerCount < p
      BY <1>1, <1>4, <2>1
    <3>2. q + WorkerCount \in Nat
      BY <1>1, <1>4
    <3>3. CASE q + WorkerCount < p
      <4>1. (q + WorkerCount) * ChunkSize + ChunkSize <= p * ChunkSize
        BY <1>1, <1>4, <3>2, <3>3, ProductBelow
      <4>2. (q + WorkerCount) * ChunkSize \in Nat
        BY <1>1, <3>2
      <4> QED
        BY <1>1, <1>4, <4>1, <4>2
    <3> QED
      BY <1>4, <3>1, <3>3
  <2>3. (q + WorkerCount) * ChunkSize = q * ChunkSize + ChunkSize + (WorkerCount - 1) * ChunkSize
    <3> HIDE DEF q
    <3> QED
      BY <1>1, <1>4
  <2>4. (WorkerCount - 1) * ChunkSize \in Nat
    BY <1>1
  <2>5. NextIndex(i) <= q * ChunkSize + ChunkSize + (WorkerCount - 1) * ChunkSize
    BY <1>1, <1>2, <1>4, <2>4 DEF NextIndex
  <2> QED
    <3>1. NextIndex(i) \in Nat
      BY <1>1, <1>2, <1>4, <2>4 DEF NextIndex
    <3>2. c >= p * ChunkSize /\ c \in Nat
      BY <1>1, <1>3, <1>4
    <3> QED
      BY <1>1, <1>4, <2>2, <2>3, <2>4, <2>5, <3>1, <3>2
<1> QED
  BY <1>5, <1>6, <1>7

LEMMA NextIndexAbove ==
  ASSUME NEW i \in Nat
  PROVE  NextIndex(i) \in Nat /\ i < NextIndex(i)
<1>1. WorkerCount - 1 \in Nat /\ ChunkSize \in Nat
  BY WorkerCountType, SizeAssumption
<1>2. (WorkerCount - 1) * ChunkSize \in Nat
  BY <1>1
<1> QED
  BY <1>2 DEF NextIndex

-----------------------------------------------------------------------------
(***************************************************************************)
(* What a heap of at most Limit entries loses.  Keeps(s, P, H): none of P   *)
(* that H lacks belongs before any of H, and H lacks one only when full.    *)
(***************************************************************************)

Keeps(s, P, H) ==
  \A c \in P \ H :
    s[c] # 0 => /\ Cardinality(H) = Limit
                /\ \A x \in H : ~ ScoreBefore(s, c, x)

\* What belongs before x belongs before y or y before x: cmp_score() is a weak order.
LEMMA ScoreOrder ==
  ASSUME NEW s \in [Haystacks -> Int],
         NEW a \in Haystacks, NEW b \in Haystacks, NEW c \in Haystacks,
         ScoreBefore(s, a, c)
  PROVE  ScoreBefore(s, a, b) \/ ScoreBefore(s, b, c)
<1>1. Rank[a] \in Nat /\ Rank[b] \in Nat /\ Rank[c] \in Nat
  BY ScoreAssumption
<1>2. s[a] \in Int /\ s[b] \in Int /\ s[c] \in Int
  OBVIOUS
<1> QED
  BY <1>1, <1>2 DEF ScoreBefore, AlphaBefore

\* A candidate below a root of the full heap is below all of it: pruned or not inserted.
LEMMA BelowKeeps ==
  ASSUME NEW s \in [Haystacks -> Int], NEW H \in SUBSET Haystacks, NEW P,
         NEW c \in Haystacks, NEW root \in Worst(s, H),
         Cardinality(H) = Limit, Keeps(s, P, H), s[c] < s[root]
  PROVE  Keeps(s, P \cup {c}, H)
<1>1. ASSUME NEW x \in H PROVE ~ ScoreBefore(s, c, x)
  <2>1. root \in Haystacks /\ x \in Haystacks /\ ~ ScoreBefore(s, root, x)
    BY DEF Worst
  <2>2. s[root] \in Int /\ s[x] \in Int /\ s[c] \in Int
    BY <2>1
  <2> QED
    BY <2>1, <2>2 DEF ScoreBefore
<1> QED
  BY <1>1 DEF Keeps

\* One of the worst of the full heap and a newcomer is taken out.
LEMMA ReplacingKeeps ==
  ASSUME NEW s \in [Haystacks -> Int], NEW H \in SUBSET Haystacks,
         NEW P \in SUBSET Haystacks,
         NEW c \in Haystacks, c \notin H, NEW x \in Worst(s, H \cup {c}),
         Cardinality(H) = Limit, Keeps(s, P, H)
  PROVE  Keeps(s, P \cup {c}, (H \cup {c}) \ {x})
<1> DEFINE G == (H \cup {c}) \ {x}
<1>1. IsFiniteSet(H) /\ Limit \in Nat
  <2>1. IsFiniteSet(Haystacks)
    BY SizeAssumption, FS_Interval
  <2> QED
    BY <2>1, FS_Subset, SizeAssumption
<1>2. Cardinality(G) = Limit
  <2>1. IsFiniteSet(H \cup {c}) /\ Cardinality(H \cup {c}) = Limit + 1
    BY <1>1, FS_AddElement
  <2>2. x \in H \cup {c}
    BY DEF Worst
  <2>3. Cardinality((H \cup {c}) \ {x}) = (Limit + 1) - 1
    BY <2>1, <2>2, FS_RemoveElement
  <2> QED
    BY <1>1, <2>3
<1>3. ASSUME NEW p \in (P \cup {c}) \ G, s[p] # 0, NEW y \in G
      PROVE  ~ ScoreBefore(s, p, y)
  <2>1. y \in H \cup {c} /\ x \in H \cup {c} /\ ~ ScoreBefore(s, x, y)
    BY DEF Worst
  <2>2. CASE p = x
    BY <2>1, <2>2
  <2>3. CASE p # x
    <3>1. p \in P \ H
      BY <2>3
    <3>2. \A z \in H : ~ ScoreBefore(s, p, z)
      BY <1>3, <3>1 DEF Keeps
    <3>3. CASE y \in H
      BY <3>2, <3>3
    <3>4. CASE y = c
      <4>1. x \in H
        BY <2>1, <3>4
      <4>2. x \in Haystacks /\ p \in Haystacks /\ y \in Haystacks
        BY <3>1, <3>4, <4>1
      <4>3. ~ ScoreBefore(s, p, x)
        BY <3>2, <4>1
      <4> QED
        BY <2>1, <4>2, <4>3, ScoreOrder
    <3> QED
      BY <2>1, <3>3, <3>4
  <2> QED
    BY <2>2, <2>3
<1> HIDE DEF G
<1>4. Keeps(s, P \cup {c}, G)
  BY <1>2, <1>3 DEF Keeps
<1> QED
  BY <1>4 DEF G

\* What was scored is at best not after what the heap then holds.
LEMMA OfferingKeeps ==
  ASSUME TypeOK, NEW w \in Workers, NEW s \in [Haystacks -> Int], NEW t,
         NEW P \in SUBSET Haystacks, NEW c \in Haystacks, c \notin heap[w],
         Keeps(s, P, heap[w]), \A x \in heap[w] \cup {c} : t[x] = s[x],
         NEW H \in Offered(w, c, t)
  PROVE  Keeps(s, P \cup {c}, H)
<1>1. heap[w] \in SUBSET Haystacks
  BY DEF TypeOK
<1>2. /\ Worst(t, heap[w]) = Worst(s, heap[w])
      /\ Worst(t, heap[w] \cup {c}) = Worst(s, heap[w] \cup {c})
  BY DEF Worst, ScoreBefore
<1>3. CASE s[c] = 0 /\ H = heap[w]
  BY <1>3 DEF Keeps
<1>4. CASE ~ Full(w) /\ H = heap[w] \cup {c}
  BY <1>4 DEF Keeps, Full
<1>5. CASE Full(w) /\ H = heap[w] /\ \E root \in Worst(s, heap[w]) : s[c] < s[root]
  BY <1>1, <1>5, BelowKeeps DEF Full
<1>6. CASE Full(w) /\ \E x \in Worst(s, heap[w] \cup {c}) : H = (heap[w] \cup {c}) \ {x}
  BY <1>1, <1>6, ReplacingKeeps DEF Full
<1>7. \A root \in Worst(s, heap[w]) : t[root] = s[root]
  BY DEF Worst
<1> QED
  BY <1>2, <1>3, <1>4, <1>5, <1>6, <1>7 DEF Offered

-----------------------------------------------------------------------------
(***************************************************************************)
(* The inductive invariant.                                                 *)
(***************************************************************************)

\* When the answers are right: the user only types on, and the scores allow it.
Typing == ~ Erase /\ ZeroStays /\ OneOrder

\* The candidates that worker w has been past in this run.
Passed(w) == { c \in Dealt(w) \cap Haystacks : c < at[w] }

\* Those it kept, whether or not the main thread has collected them.
Held(w) == heap[w] \cup (matches \cap Dealt(w))

\* A 0 left in a score is true of the needle, whichever run it is from.
ZeroTrue ==
  \A c \in Haystacks :
    score[c] = 0 => needle \in Needles /\ ScoreOf[needle][c] = 0

Remembered == phase = "idle" => lastNeedle = needle

Uncollected(w) ==
  \/ phase = "spawning"
  \/ phase = "joining" /\ w # MainWorker /\ w \notin 0 .. (joined - 1)

\* A heap holds what its worker has been past, and nothing of it is in matches before the
\* main thread collects it.
Apart ==
  \A w \in Workers :
    /\ heap[w] \subseteq Passed(w)
    /\ Uncollected(w) => matches \cap Dealt(w) = {}

KeepsBest ==
  phase # "idle" =>
    \A w \in Workers : Keeps(ScoreOf[needle], Passed(w), Held(w))

AInv == IInv /\ ZeroTrue /\ Remembered /\ Apart /\ KeepsBest /\ AnswerIsBest

LEMMA InitAInv == Init => AInv
<1> SUFFICES ASSUME Init PROVE AInv
  OBVIOUS
<1>1. ZeroTrue
  BY ScoreAssumption DEF Init, ZeroTrue
<1>2. Remembered /\ KeepsBest /\ AnswerIsBest
  BY DEF Init, Remembered, KeepsBest, AnswerIsBest
<1>3. Apart
  BY DEF Init, NoWork, Apart
<1> QED
  BY <1>1, <1>2, <1>3, InitIInv DEF AInv

LEMMA StartRunAnswers ==
  ASSUME Typing, AInv, NEW n \in Needles, StartRun(n)
  PROVE  AInv'
<1>1. ZeroTrue'
  <2> SUFFICES ASSUME NEW c \in Haystacks, score[c] = 0
               PROVE  ScoreOf[n][c] = 0
    BY DEF ZeroTrue, StartRun
  <2>1. needle \in Needles /\ ScoreOf[needle][c] = 0 /\ lastNeedle = needle
    BY DEF AInv, ZeroTrue, Remembered, StartRun
  <2>2. Extends(n, needle)
    BY <2>1, NeedleAssumption DEF Typing, StartRun
  <2> QED
    BY <2>1, <2>2 DEF Typing, ZeroStays
<1>2. \A w \in Workers : heap'[w] = {} /\ Passed(w)' = {}
  <2>1. ASSUME NEW w \in Workers PROVE Passed(w)' = {}
    <3>1. at'[w] = FirstIndex(w) /\ FirstIndex(w) \in Nat
      BY SizeAssumption, WorkerCountType DEF StartRun, FirstIndex, Workers
    <3>2. \A c \in Dealt(w) \cap Haystacks : c \in Nat /\ FirstIndex(w) <= c
      BY NothingBeforeFirst, SizeAssumption
    <3> QED
      BY <3>1, <3>2 DEF Passed
  <2> QED
    BY <2>1 DEF AInv, IInv, Collected, StartRun
<1>3. Apart'
  <2>1. matches' = {}
    BY DEF AInv, IInv, Collected, StartRun
  <2> QED
    BY <1>2, <2>1 DEF Apart
<1>4. KeepsBest'
  BY <1>2 DEF KeepsBest, Keeps
<1>5. Remembered' /\ AnswerIsBest'
  BY DEF AInv, Remembered, AnswerIsBest, StartRun
<1> QED
  BY <1>1, <1>3, <1>4, <1>5, StartRunKeeps DEF AInv

LEMMA SpawnAnswers ==
  ASSUME AInv, Spawn
  PROVE  AInv'
<1>1. ZeroTrue' /\ Remembered' /\ AnswerIsBest'
  BY DEF AInv, ZeroTrue, Remembered, AnswerIsBest, Spawn
<1>2. Apart'
  BY DEF AInv, Apart, Passed, Uncollected, Spawn
<1>3. KeepsBest'
  BY DEF AInv, KeepsBest, Keeps, Passed, Held, Spawn
<1> QED
  BY <1>1, <1>2, <1>3, SpawnKeeps DEF AInv

\* Collecting a heap moves it from one part of Held to the other.
LEMMA CollectingKeepsHeld ==
  ASSUME IInv, NEW v \in Workers,
         matches' = matches \cup heap[v], heap' = [heap EXCEPT ![v] = {}]
  PROVE  /\ \A w \in Workers : Held(w)' = Held(w)
         /\ \A w \in Workers : heap'[w] \subseteq heap[w]
         /\ \A w \in Workers : w # v => matches' \cap Dealt(w) = matches \cap Dealt(w)
<1>1. heap'[v] = {} /\ \A w \in Workers : w # v => heap'[w] = heap[w]
  BY DEF IInv, TypeOK
<1>2. heap[v] \subseteq Dealt(v)
  BY DEF IInv, Dealing
<1>3. \A w \in Workers : w # v => heap[v] \cap Dealt(w) = {}
  BY <1>2, DealtDisjoint
<1>4. \A w \in Workers : w # v => matches' \cap Dealt(w) = matches \cap Dealt(w)
  BY <1>3
<1>5. Held(v)' = Held(v)
  BY <1>1, <1>2 DEF Held
<1>6. \A w \in Workers : w # v => Held(w)' = Held(w)
  BY <1>1, <1>4 DEF Held
<1> QED
  BY <1>1, <1>4, <1>5, <1>6

LEMMA CollectOwnAnswers ==
  ASSUME AInv, CollectOwn
  PROVE  AInv'
<1>1. MainWorker \in Workers
  BY WorkerCountType DEF MainWorker, Workers
<1>2. /\ \A w \in Workers : Held(w)' = Held(w)
      /\ \A w \in Workers : heap'[w] \subseteq heap[w]
      /\ \A w \in Workers : w # MainWorker => matches' \cap Dealt(w) = matches \cap Dealt(w)
  BY <1>1, CollectingKeepsHeld DEF AInv, CollectOwn
<1>3. \A w \in Workers : Passed(w)' = Passed(w)
  BY DEF Passed, CollectOwn
<1>4. ZeroTrue' /\ Remembered' /\ AnswerIsBest'
  BY DEF AInv, ZeroTrue, Remembered, AnswerIsBest, CollectOwn
<1>5. Apart'
  BY <1>2, <1>3 DEF AInv, Apart, Uncollected, CollectOwn
<1>6. KeepsBest'
  BY <1>2, <1>3 DEF AInv, KeepsBest, CollectOwn
<1> QED
  BY <1>4, <1>5, <1>6, CollectOwnKeeps DEF AInv

LEMMA JoinAnswers ==
  ASSUME AInv, Join
  PROVE  AInv'
<1>1. joined \in Workers /\ joined \in Nat
  BY WorkerCountType DEF AInv, IInv, TypeOK, Join, MainWorker, Workers
<1>2. /\ \A w \in Workers : Held(w)' = Held(w)
      /\ \A w \in Workers : heap'[w] \subseteq heap[w]
      /\ \A w \in Workers : w # joined => matches' \cap Dealt(w) = matches \cap Dealt(w)
  BY <1>1, CollectingKeepsHeld DEF AInv, Join
<1>3. \A w \in Workers : Passed(w)' = Passed(w)
  BY DEF Passed, Join
<1>4. ZeroTrue' /\ Remembered' /\ AnswerIsBest'
  BY DEF AInv, ZeroTrue, Remembered, AnswerIsBest, Join
<1>5. Apart'
  <2>1. ASSUME NEW w \in Workers, Uncollected(w)'
        PROVE  w # joined /\ Uncollected(w)
    BY <1>1, <2>1, WorkerCountType DEF Uncollected, Join, Workers
  <2> QED
    BY <1>2, <1>3, <2>1 DEF AInv, Apart
<1>6. KeepsBest'
  BY <1>2, <1>3 DEF AInv, KeepsBest, Join
<1> QED
  BY <1>4, <1>5, <1>6, JoinKeeps DEF AInv

-----------------------------------------------------------------------------
(***************************************************************************)
(* The workers.                                                             *)
(***************************************************************************)

\* A worker that moves on has been past one candidate more, and no other has.
LEMMA AdvancePasses ==
  ASSUME IInv, NEW w \in Workers, Running(w), Advance(w)
  PROVE  /\ Passed(w) \subseteq Passed(w)'
         /\ at[w] \in Passed(w)'
         /\ Passed(w)' \subseteq Passed(w) \cup {at[w]}
         /\ \A v \in Workers : v # w => Passed(v)' = Passed(v)
<1>1. at[w] \in Nat /\ at[w] \in Dealt(w) /\ at[w] \in Haystacks
  BY RunningWorker DEF IInv, TypeOK, Dealing
<1>2. /\ at'[w] = NextIndex(at[w])
      /\ \A v \in Workers : v # w => at'[v] = at[v]
  BY DEF IInv, TypeOK, Advance
<1>3. NextIndex(at[w]) \in Nat /\ at[w] < NextIndex(at[w])
  BY <1>1, NextIndexAbove
<1>4. Haystacks \subseteq Nat
  BY SizeAssumption
<1>5. ASSUME NEW c \in Dealt(w) \cap Haystacks, c < NextIndex(at[w])
      PROVE  c < at[w] \/ c = at[w]
  <2>1. c \in Nat /\ c <= at[w]
    BY <1>1, <1>4, <1>5, NothingBetween
  <2> QED
    BY <1>1, <2>1
<1>6. ASSUME NEW c \in Dealt(w) \cap Haystacks, c < at[w]
      PROVE  c < NextIndex(at[w])
  <2>1. c \in Nat
    BY <1>4
  <2> QED
    BY <1>1, <1>3, <1>6, <2>1
<1> QED
  BY <1>1, <1>2, <1>3, <1>5, <1>6 DEF Passed

\* A worker that runs is uncollected, so what it holds is its heap.
LEMMA RunningHolds ==
  ASSUME AInv, NEW w \in Workers, Running(w)
  PROVE  /\ phase # "idle"
         /\ needle \in Needles
         /\ at[w] \in Haystacks
         /\ at[w] \notin heap[w]
         /\ matches \cap Dealt(w) = {}
         /\ Held(w) = heap[w]
         /\ Keeps(ScoreOf[needle], Passed(w), heap[w])
<1>1. /\ at[w] \in Haystacks /\ needle \in Needles /\ phase # "idle"
      /\ phase = "joining" => w # MainWorker /\ w \notin 0 .. (joined - 1)
  BY RunningWorker DEF AInv
<1>2. Uncollected(w)
  BY <1>1 DEF Uncollected, AInv, IInv, TypeOK
<1>3. matches \cap Dealt(w) = {} /\ heap[w] \subseteq Passed(w)
  BY <1>2 DEF AInv, Apart
<1>4. Held(w) = heap[w]
  BY <1>3 DEF Held
<1>5. at[w] \notin heap[w]
  BY <1>1, <1>3, SizeAssumption DEF Passed
<1> QED
  BY <1>1, <1>3, <1>4, <1>5 DEF AInv, KeepsBest

\* SkipNonMatch and Prune: what is passed over is no loss.
LEMMA PassAnswers ==
  ASSUME AInv, NEW w \in Workers, Running(w), Advance(w),
         Keeps(ScoreOf[needle], Passed(w) \cup {at[w]}, heap[w]),
         UNCHANGED <<score, needle, lastNeedle, phase, spawned, joined, heap, matches, results>>
  PROVE  AInv'
<1>1. /\ Passed(w) \subseteq Passed(w)'
      /\ Passed(w)' \subseteq Passed(w) \cup {at[w]}
      /\ \A v \in Workers : v # w => Passed(v)' = Passed(v)
  BY AdvancePasses DEF AInv
<1>2. Held(w) = heap[w]
  BY RunningHolds
<1>3. \A v \in Workers : Held(v)' = Held(v)
  BY DEF Held
<1>4. ZeroTrue' /\ Remembered' /\ AnswerIsBest'
  BY DEF AInv, ZeroTrue, Remembered, AnswerIsBest
<1>5. Apart'
  BY <1>1 DEF AInv, Apart, Uncollected
<1>6. KeepsBest'
  <2>1. Keeps(ScoreOf[needle], Passed(w)', Held(w))
    BY <1>1, <1>2 DEF Keeps
  <2>2. phase # "idle"
    BY RunningHolds
  <2> QED
    BY <1>1, <1>3, <2>1, <2>2 DEF AInv, KeepsBest
<1>7. IInv'
  BY PassKeeps DEF AInv
<1> QED
  BY <1>4, <1>5, <1>6, <1>7 DEF AInv

LEMMA SkipNonMatchAnswers ==
  ASSUME AInv, NEW w \in Workers, SkipNonMatch(w)
  PROVE  AInv'
<1>1. /\ at[w] \in Haystacks
      /\ Keeps(ScoreOf[needle], Passed(w), heap[w])
  BY RunningHolds DEF SkipNonMatch
<1>2. ScoreOf[needle][at[w]] = 0
  BY <1>1 DEF AInv, ZeroTrue, SkipNonMatch, Skippable
<1>3. Keeps(ScoreOf[needle], Passed(w) \cup {at[w]}, heap[w])
  BY <1>1, <1>2 DEF Keeps
<1> QED
  BY <1>3, PassAnswers DEF SkipNonMatch

LEMMA PruneAnswers ==
  ASSUME AInv, NEW w \in Workers, Prune(w)
  PROVE  AInv'
<1> DEFINE s == ScoreOf[needle]
           c == at[w]
<1>1. /\ c \in Haystacks /\ needle \in Needles \ Alphabetic
      /\ Keeps(s, Passed(w), heap[w])
      /\ Cardinality(heap[w]) = Limit
  BY RunningHolds DEF Prune, Prunable, Full
<1>2. s \in [Haystacks -> Int] /\ heap[w] \in SUBSET Haystacks
  BY <1>1, ScoreAssumption DEF AInv, IInv, TypeOK
<1>3. \A x \in heap[w] : score[x] = s[x]
  BY DEF AInv, IInv, Fresh
<1>4. PICK root \in Worst(score, heap[w]) : Bound[needle][c] < score[root]
  BY DEF Prune, Prunable
<1>5. root \in Worst(s, heap[w]) /\ score[root] = s[root] /\ root \in Haystacks
  BY <1>2, <1>3 DEF Worst, ScoreBefore
<1>6. s[c] < s[root]
  <2>1. s[c] <= Bound[needle][c] /\ Bound[needle][c] \in Int
    BY <1>1, BoundAssumption, ScoreAssumption
  <2>2. s[c] \in Int /\ s[root] \in Int
    BY <1>1, <1>2, <1>5
  <2> QED
    BY <1>4, <1>5, <2>1, <2>2
<1> HIDE DEF s
<1>7. Keeps(s, Passed(w) \cup {c}, heap[w])
  BY <1>1, <1>2, <1>5, <1>6, BelowKeeps
<1> QED
  BY <1>7, PassAnswers DEF Prune, s

LEMMA ScoreCandidateAnswers ==
  ASSUME AInv, NEW w \in Workers, ScoreCandidate(w)
  PROVE  AInv'
<1> DEFINE s == ScoreOf[needle]
           c == at[w]
<1>1. /\ c \in Haystacks /\ needle \in Needles /\ phase # "idle"
      /\ c \notin heap[w]
      /\ matches \cap Dealt(w) = {}
      /\ Keeps(s, Passed(w), heap[w])
  BY RunningHolds DEF ScoreCandidate
<1>2. s \in [Haystacks -> Int] /\ heap[w] \in SUBSET Haystacks
  BY <1>1, ScoreAssumption DEF AInv, IInv, TypeOK
<1>3. PICK H \in Offered(w, c, score') : heap' = [heap EXCEPT ![w] = H]
  BY DEF ScoreCandidate
<1>4. /\ Passed(w) \subseteq Passed(w)'
      /\ c \in Passed(w)'
      /\ Passed(w)' \subseteq Passed(w) \cup {c}
      /\ \A v \in Workers : v # w => Passed(v)' = Passed(v)
  BY AdvancePasses DEF AInv, ScoreCandidate
<1>5. /\ score'[c] = s[c]
      /\ \A x \in Haystacks : x # c => score'[x] = score[x]
  BY <1>1 DEF AInv, IInv, TypeOK, ScoreCandidate
<1>6. \A x \in heap[w] \cup {c} : score'[x] = s[x]
  BY <1>2, <1>5 DEF AInv, IInv, Fresh
<1>7. heap'[w] = H /\ \A v \in Workers : v # w => heap'[v] = heap[v]
  BY <1>3 DEF AInv, IInv, TypeOK
<1>8. needle' = needle /\ matches' = matches /\ phase' = phase /\ joined' = joined
  BY DEF ScoreCandidate
<1>9. Passed(w) \in SUBSET Haystacks
  BY DEF Passed
<1> HIDE DEF s, c
<1>10. Keeps(s, Passed(w) \cup {c}, H)
  BY <1>1, <1>2, <1>3, <1>6, <1>9, OfferingKeeps DEF AInv, IInv
<1>11. H \subseteq heap[w] \cup {c}
  BY <1>1, <1>3, OfferedKeeps DEF AInv, IInv
<1>12. ZeroTrue'
  BY <1>1, <1>5, <1>8 DEF AInv, ZeroTrue, s
<1>13. Remembered' /\ AnswerIsBest'
  BY DEF AInv, Remembered, AnswerIsBest, ScoreCandidate
<1>14. Apart'
  <2>1. heap'[w] \subseteq Passed(w)'
    BY <1>4, <1>7, <1>11 DEF AInv, Apart
  <2> QED
    BY <1>4, <1>7, <1>8, <2>1 DEF AInv, Apart, Uncollected
<1>15. KeepsBest'
  <2>1. Held(w)' = H /\ Keeps(s, Passed(w)', H)
    BY <1>1, <1>4, <1>7, <1>8, <1>10 DEF Held, Keeps
  <2>2. \A v \in Workers : v # w => Held(v)' = Held(v)
    BY <1>7, <1>8 DEF Held
  <2> QED
    BY <1>1, <1>4, <1>8, <2>1, <2>2 DEF AInv, KeepsBest, s
<1>16. IInv'
  BY ScoreCandidateKeeps DEF AInv
<1> QED
  BY <1>12, <1>13, <1>14, <1>15, <1>16 DEF AInv

-----------------------------------------------------------------------------
(***************************************************************************)
(* The answer.                                                              *)
(***************************************************************************)

LEMMA SubsetFinite ==
  ASSUME NEW P \in SUBSET Haystacks
  PROVE  IsFiniteSet(P) /\ Cardinality(P) \in Nat
<1>1. IsFiniteSet(Haystacks)
  BY SizeAssumption, FS_Interval
<1> QED
  BY <1>1, FS_Subset, FS_CardinalityType

\* A result lists at most Limit candidates.
LEMMA ListedAtMostLimit ==
  ASSUME NEW k \in Nat, k <= Limit, NEW T, NEW r \in [1 .. k -> T],
         NEW A \in SUBSET { r[i] : i \in 1 .. k }
  PROVE  IsFiniteSet(A) /\ Cardinality(A) <= Limit
<1> DEFINE R == { r[i] : i \in 1 .. k }
<1>1. r \in Surjection(1 .. k, R)
  BY DEF Surjection
<1>2. IsFiniteSet(1 .. k) /\ Cardinality(1 .. k) = k
  BY FS_Interval
<1>3. IsFiniteSet(R) /\ Cardinality(R) <= k
  <2> HIDE DEF R
  <2> QED
    BY <1>1, <1>2, FS_Surjection
<1>4. A \in SUBSET R
  OBVIOUS
<1>5. IsFiniteSet(A) /\ Cardinality(A) <= Cardinality(R)
  <2> HIDE DEF R
  <2> QED
    BY <1>3, <1>4, FS_Subset
<1>6. Cardinality(A) \in Nat /\ Cardinality(R) \in Nat
  BY <1>3, <1>5, FS_CardinalityType
<1> QED
  BY <1>3, <1>5, <1>6, SizeAssumption

\* A match that is not shown gave way to Limit others, all shown, and none after it.
LEMMA GaveWay ==
  ASSUME AInv, phase = "joining", joined = MainWorker,
         NEW c \in Matching(needle) \ Shown
  PROVE  \E H \in SUBSET Shown :
           /\ c \notin H
           /\ Cardinality(H) = Limit
           /\ \A x \in H : ~ ScoreBefore(ScoreOf[needle], c, x)
<1> DEFINE s == ScoreOf[needle]
<1>1. needle \in Needles /\ s \in [Haystacks -> Int]
  BY ScoreAssumption DEF AInv, IInv, Asked
<1>2. c \in Haystacks /\ s[c] > 0 /\ s[c] \in Int
  BY <1>1 DEF Matching
<1>3. PICK w \in Workers : c \in Dealt(w)
  BY <1>2, DealtCovers
<1>4. at[w] >= Count /\ heap[w] = {} /\ at[w] \in Nat
  <2>1. w = MainWorker \/ w \in 0 .. (joined - 1)
    BY WorkerCountType DEF Workers, MainWorker
  <2> QED
    BY <2>1 DEF AInv, IInv, Collected, Done, TypeOK
<1>5. c \in Passed(w)
  BY <1>2, <1>3, <1>4, SizeAssumption DEF Passed
<1>6. Held(w) = matches \cap Dealt(w)
  BY <1>4 DEF Held
<1>7. c \notin matches
  BY <1>2 DEF AInv, IInv, Fresh, Shown
<1>8. /\ Cardinality(Held(w)) = Limit
      /\ \A x \in Held(w) : ~ ScoreBefore(s, c, x)
  BY <1>2, <1>5, <1>6, <1>7 DEF AInv, KeepsBest, Keeps
<1>9. ASSUME NEW x \in Held(w) PROVE x \in Shown
  <2>1. x \in matches /\ x \in Haystacks /\ score[x] = s[x]
    BY <1>6 DEF AInv, IInv, Fresh, TypeOK
  <2>2. s[x] \in Int /\ ~ (s[c] > s[x])
    BY <1>1, <1>8, <2>1 DEF ScoreBefore
  <2>3. s[x] > 0
    BY <1>2, <2>2
  <2> QED
    BY <2>1, <2>3 DEF Shown
<1> QED
  BY <1>6, <1>7, <1>8, <1>9

\* The first of those shown are the first of all that match.
LEMMA FirstShownIsBest ==
  ASSUME Typing, AInv, phase = "joining", joined = MainWorker,
         NEW r \in FirstOf(Shown, needle, score)
  PROVE  r \in BestAnswers(needle)
<1> DEFINE s == ScoreOf[needle]
           All == Matching(needle)
<1>1. needle \in Needles /\ s \in [Haystacks -> Int]
  BY ScoreAssumption DEF AInv, IInv, Asked
<1>2. Shown \in SUBSET All /\ All \in SUBSET Haystacks /\ \A x \in Shown : score[x] = s[x]
  BY DEF AInv, IInv, TypeOK, Fresh, Shown, Matching
<1>3. /\ IsFiniteSet(Shown) /\ Cardinality(Shown) \in Nat
      /\ IsFiniteSet(All) /\ Cardinality(All) \in Nat
      /\ Limit \in Nat
  BY <1>2, SubsetFinite, SizeAssumption
<1>4. r \in [1 .. Fits(Shown) -> Shown] /\ IsFirstOf(r, Shown, needle, score)
  BY DEF FirstOf
<1>5. \A a, b \in Shown : Precedes(needle, score, a, b) <=> Precedes(needle, s, a, b)
  BY <1>2 DEF Precedes, ScoreBefore
<1>6. Fits(Shown) \in Nat /\ Fits(Shown) <= Limit
  BY <1>3 DEF Fits
<1>7. DOMAIN r = 1 .. Fits(Shown) /\ \A i \in DOMAIN r : r[i] \in Shown
  BY <1>4
<1>8. \A i, j \in DOMAIN r : i < j => r[i] # r[j] /\ ~ Precedes(needle, s, r[j], r[i])
  BY <1>4, <1>5, <1>7 DEF IsFirstOf
<1>9. ASSUME NEW c \in Shown, NEW i \in DOMAIN r, Precedes(needle, s, c, r[i])
      PROVE  \E j \in DOMAIN r : r[j] = c
  BY <1>4, <1>5, <1>7, <1>9 DEF IsFirstOf
<1>10. Fits(Shown) = Fits(All)
  <2>1. CASE All = Shown
    BY <2>1
  <2>2. CASE All # Shown
    <3>1. PICK H \in SUBSET Shown : Cardinality(H) = Limit
      BY <1>2, <2>2, GaveWay
    <3>2. Limit <= Cardinality(Shown) /\ Cardinality(Shown) <= Cardinality(All)
      BY <1>2, <1>3, <3>1, FS_Subset
    <3> HIDE DEF All
    <3> QED
      BY <1>3, <3>2 DEF Fits
  <2> QED
    BY <2>1, <2>2
<1>11. ASSUME NEW c \in All \ Shown, NEW i \in DOMAIN r, Precedes(needle, s, c, r[i])
       PROVE  FALSE
  <2>1. PICK H \in SUBSET Shown :
          /\ c \notin H
          /\ Cardinality(H) = Limit
          /\ \A x \in H : ~ ScoreBefore(s, c, x)
    BY GaveWay
  <2>2. c \in Haystacks /\ r[i] \in Haystacks /\ H \in SUBSET Haystacks
    BY <1>2, <1>7, <2>1
  <2>3. IsFiniteSet(H)
    BY <2>2, SubsetFinite
  <2>4. CASE Cardinality(All) <= Limit
    <3>1. H \cup {c} \in SUBSET All /\ Cardinality(H \cup {c}) = Limit + 1
      BY <1>2, <2>1, <2>3, FS_AddElement
    <3> HIDE DEF All
    <3>2. Cardinality(H \cup {c}) <= Cardinality(All)
      BY <1>3, <3>1, FS_Subset
    <3> QED
      BY <1>3, <2>4, <3>1, <3>2
  <2>5. CASE \A a, b \in All : Precedes(needle, s, a, b) <=> ScoreBefore(s, a, b)
    <3>1. \A x \in H : ScoreBefore(s, x, r[i])
      <4>1. ScoreBefore(s, c, r[i])
        BY <1>2, <1>7, <1>11, <2>5
      <4> HIDE DEF s
      <4> QED
        BY <1>1, <2>1, <2>2, <4>1, ScoreOrder
    <3>2. r[i] \notin H
      <4>1. s[r[i]] \in Int /\ Rank[r[i]] \in Nat
        BY <1>1, <2>2, ScoreAssumption
      <4>2. ~ ScoreBefore(s, r[i], r[i])
        BY <4>1 DEF ScoreBefore, AlphaBefore
      <4> QED
        BY <3>1, <4>2
    <3>3. \A x \in H : \E j \in DOMAIN r : r[j] = x
      BY <1>2, <1>7, <1>9, <2>1, <2>5, <3>1
    <3>4. Cardinality(H \cup {r[i]}) = Limit + 1
      BY <2>1, <2>3, <3>2, FS_AddElement
    <3>5. Cardinality(H \cup {r[i]}) <= Limit
      <4> DEFINE A == H \cup {r[i]}
                 k == Fits(Shown)
      <4>1. A \in SUBSET { r[j] : j \in 1 .. k }
        BY <1>7, <3>3
      <4>2. k \in Nat /\ k <= Limit /\ r \in [1 .. k -> Shown]
        BY <1>4, <1>6
      <4> HIDE DEF A, k
      <4>3. Cardinality(A) <= Limit
        BY <4>1, <4>2, ListedAtMostLimit
      <4> QED
        BY <4>3 DEF A
    <3> QED
      BY <1>3, <3>4, <3>5
  <2>6. Cardinality(All) <= Limit
        \/ \A a, b \in All : Precedes(needle, s, a, b) <=> ScoreBefore(s, a, b)
    <3>1. CASE needle \notin Alphabetic
      BY <3>1 DEF Precedes
    <3>2. CASE needle \in Alphabetic /\ \A a, b \in All : s[a] = s[b]
      <4>1. \A a \in All : s[a] \in Int
        BY <1>1, <1>2
      <4> QED
        BY <3>2, <4>1 DEF Precedes, ScoreBefore
    <3> QED
      BY <3>1, <3>2 DEF Typing, OneOrder
  <2> QED
    BY <2>4, <2>5, <2>6
<1>12. IsFirstOf(r, All, needle, s)
  BY <1>8, <1>9, <1>11 DEF IsFirstOf
<1>13. r \in [1 .. Fits(All) -> All]
  BY <1>2, <1>4, <1>10
<1> QED
  BY <1>12, <1>13 DEF BestAnswers, FirstOf

LEMMA FinishAnswers ==
  ASSUME Typing, AInv, Finish
  PROVE  AInv'
<1>1. PICK r \in FirstOf(Shown, needle, score) : results' = [needle |-> needle, matches |-> r]
  BY DEF Finish
<1>2. r \in BestAnswers(needle)
  BY FirstShownIsBest DEF Finish
<1>3. AnswerIsBest'
  BY <1>1, <1>2 DEF AnswerIsBest, Finish
<1>4. ZeroTrue' /\ Remembered' /\ KeepsBest'
  BY DEF AInv, ZeroTrue, Remembered, KeepsBest, Finish
<1>5. Apart'
  BY DEF AInv, Apart, Passed, Uncollected, Finish
<1> QED
  BY <1>3, <1>4, <1>5, FinishKeeps DEF AInv

LEMMA NextAnswers == Typing /\ AInv /\ [Next]_vars => AInv'
<1> SUFFICES ASSUME Typing, AInv, [Next]_vars PROVE AInv'
  OBVIOUS
<1>1. CASE \E n \in Needles : StartRun(n)
  BY <1>1, StartRunAnswers
<1>2. CASE Main
  BY <1>2, SpawnAnswers, CollectOwnAnswers, JoinAnswers, FinishAnswers DEF Main
<1>3. ASSUME NEW w \in Workers, Work(w) PROVE AInv'
  BY <1>3, SkipNonMatchAnswers, PruneAnswers, ScoreCandidateAnswers DEF Work
<1>4. CASE UNCHANGED vars
  <2>1. IInv'
    BY <1>4, NextKeeps DEF AInv
  <2>2. ZeroTrue' /\ Remembered' /\ AnswerIsBest'
    BY <1>4 DEF vars, AInv, ZeroTrue, Remembered, AnswerIsBest
  <2>3. Apart'
    BY <1>4 DEF vars, AInv, Apart, Passed, Uncollected
  <2>4. KeepsBest'
    BY <1>4 DEF vars, AInv, KeepsBest, Keeps, Passed, Held
  <2> QED
    BY <2>1, <2>2, <2>3, <2>4 DEF AInv
<1> QED
  BY <1>1, <1>2, <1>3, <1>4 DEF Next

THEOREM AnswerInvariance == ASSUME Typing PROVE Spec => []AInv
<1>1. AInv /\ [Next]_vars => AInv'
  BY NextAnswers
<1> QED
  BY <1>1, InitAInv, PTL DEF Spec, Safety

\* While the user types on, every answer is the best `limit` of all the candidates that
\* match, in order: neither the heaps, nor pruning, nor the zeros of earlier runs, nor the
\* scheduling of the threads ever loses or misplaces one.
THEOREM AnswersAreBest == ASSUME Typing PROVE Spec => []AnswerIsBest
<1>1. AInv => AnswerIsBest
  BY DEF AInv
<1> QED
  BY <1>1, AnswerInvariance, PTL

\* While the user types on, a candidate that get_matches() skips because it scored 0 would
\* score 0 for this query too.
THEOREM SkippingIsSafe == ASSUME Typing PROVE Spec => []SkippedCannotMatch
<1>1. AInv => SkippedCannotMatch
  BY RunningWorker DEF AInv, ZeroTrue, SkippedCannotMatch, Skippable
<1> QED
  BY <1>1, AnswerInvariance, PTL

-----------------------------------------------------------------------------
(***************************************************************************)
(* Every step of the matcher is a step of the abstract search, or none.     *)
(***************************************************************************)

LEMMA SameAnswers ==
  ASSUME NEW n
  PROVE  Abstract!BestAnswers(n) = BestAnswers(n)
BY DEF Abstract!BestAnswers, Abstract!FirstOf, Abstract!IsFirstOf, Abstract!Fits,
       Abstract!Matching, Abstract!Precedes, Abstract!ScoreBefore, Abstract!AlphaBefore,
       Abstract!Cardinality, BestAnswers, FirstOf, IsFirstOf, Fits, Matching, Precedes,
       ScoreBefore, AlphaBefore, Cardinality

LEMMA InitMaps == Init => Abstract!Init
BY DEF Init, Abstract!Init

LEMMA StepMaps ==
  ASSUME Typing, AInv, [Next]_vars
  PROVE  [Abstract!Next]_(Abstract!searchVars)
<1>1. ASSUME NEW n \in Needles, StartRun(n) PROVE Abstract!Ask(n)
  BY <1>1 DEF StartRun, Abstract!Ask
<1>2. CASE Finish
  <2>1. PICK r \in FirstOf(Shown, needle, score) : results' = [needle |-> needle, matches |-> r]
    BY <1>2 DEF Finish
  <2>2. r \in Abstract!BestAnswers(needle)
    BY <1>2, <2>1, FirstShownIsBest, SameAnswers DEF Finish
  <2>3. needle \in Needles /\ phase # "idle" /\ phase' = "idle"
    BY <1>2 DEF AInv, IInv, Asked, Finish
  <2>4. Abstract!Answer
    BY <2>1, <2>2, <2>3 DEF Abstract!Answer
  <2> QED
    BY <2>4 DEF Abstract!Next
<1>3. CASE Spawn \/ CollectOwn \/ Join
  BY <1>3 DEF Spawn, CollectOwn, Join, Abstract!searchVars
<1>4. ASSUME NEW w \in Workers, Work(w) PROVE UNCHANGED Abstract!searchVars
  BY <1>4 DEF Work, SkipNonMatch, Prune, ScoreCandidate, Abstract!searchVars
<1>5. CASE UNCHANGED vars
  BY <1>5 DEF vars, Abstract!searchVars
<1> QED
  BY <1>1, <1>2, <1>3, <1>4, <1>5 DEF Next, Main, Abstract!Next

\* While the user types on, the matcher with its threads, heaps and shortcuts does nothing
\* that the abstract search, which has none of them, would not do.
THEOREM RefinesSearchSafely ==
  ASSUME Typing
  PROVE  Spec => Abstract!Init /\ [][Abstract!Next]_(Abstract!searchVars)
<1>1. AInv /\ [Next]_vars => [Abstract!Next]_(Abstract!searchVars)
  BY StepMaps
<1> QED
  BY <1>1, AnswerInvariance, InitMaps, PTL DEF Spec, Safety
=============================================================================
