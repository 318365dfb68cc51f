-------------------------- MODULE CandidateProofs --------------------------
(***************************************************************************)
(* What is proved of score.c and of a candidate's life.  Scores: the        *)
(* pre-scan finds the rightmost embedding of the needle, the search that    *)
(* follows ends, stays within the bound of a match, and comes to 0 only     *)
(* where it should.  From these, the invariants of Candidate.               *)
(***************************************************************************)
EXTENDS Candidate, Induction, SequenceTheorems

-----------------------------------------------------------------------------
(***************************************************************************)
(* The pre-scan.                                                            *)
(***************************************************************************)

\* LastPlace finds the greatest place before `below` with the character, or 0 for none.
LEMMA LastPlaceIs ==
  ASSUME NEW h \in Seq(STRING), NEW c, NEW ignoreCase, NEW below \in 0 .. Len(h) + 1,
         NEW p, p = LastPlace(h, c, ignoreCase, below)
  PROVE  /\ p \in 0 .. Len(h)
         /\ p # 0 => p < below /\ Fold(h[p], ignoreCase) = c
         /\ \A j \in 1 .. (below - 1) : Fold(h[j], ignoreCase) = c => j <= p
<1> DEFINE at == { j \in 1 .. (below - 1) : Fold(h[j], ignoreCase) = c }
<1>1. p = IF at = {} THEN 0 ELSE CHOOSE j \in at : \A k \in at : k <= j
  BY DEF LastPlace
<1>2. at \in SUBSET Int /\ below \in Int /\ \A k \in at : k <= below
  OBVIOUS
<1>3. \A j : j \in at <=> j \in 1 .. (below - 1) /\ Fold(h[j], ignoreCase) = c
  OBVIOUS
<1> HIDE DEF at
<1>4. CASE at = {}
  BY <1>1, <1>3, <1>4
<1>5. CASE at # {}
  <2>1. \E j \in at : \A k \in at : k <= j
    BY <1>2, <1>5, Greatest
  <2>2. p \in at /\ \A k \in at : k <= p
    BY <1>1, <1>5, <2>1
  <2> QED
    BY <1>3, <2>2
<1> QED
  BY <1>4, <1>5

\* The recursive definition of Rightmost has a solution, so Rightmost obeys it.
LEMMA RightmostIs ==
  ASSUME NEW h \in Seq(STRING), NEW n \in Seq(STRING), NEW ignoreCase,
         NEW r, r = Rightmost(h, n, ignoreCase)
  PROVE  /\ r \in [1 .. Len(n) + 1 -> 0 .. Len(h) + 1]
         /\ r[Len(n) + 1] = Len(h) + 1
         /\ \A i \in 1 .. Len(n) : r[i] = LastPlace(h, n[i], ignoreCase, r[i + 1])
<1> DEFINE N == Len(n)
           Body(f, i) == IF i = N + 1 THEN Len(h) + 1
                         ELSE LastPlace(h, n[i], ignoreCase, f[i + 1])
           From1 == [1 .. N + 1 -> 0 .. Len(h) + 1]
           S == { k \in Nat : \E f \in From1 :
                    \A i \in 1 .. N + 1 : i + k > N + 1 => f[i] = Body(f, i) }
<1>1. N \in Nat /\ Len(h) \in Nat
  OBVIOUS
<1>2. \A f \in From1, i \in 1 .. N + 1 : Body(f, i) \in 0 .. Len(h) + 1
  <2> TAKE f \in From1, i \in 1 .. N + 1
  <2>1. CASE i = N + 1
    BY <2>1
  <2>2. CASE i # N + 1
    <3>1. f[i + 1] \in 0 .. Len(h) + 1
      BY <1>1, <2>2
    <3>2. LastPlace(h, n[i], ignoreCase, f[i + 1]) \in 0 .. Len(h)
      BY <3>1, LastPlaceIs
    <3> QED
      BY <1>1, <2>2, <3>2
  <2> QED
    BY <2>1, <2>2
<1>3. 0 \in S
  <2>1. [i \in 1 .. N + 1 |-> 0] \in From1
    BY <1>1
  <2>2. \A i \in 1 .. N + 1 : ~ (i + 0 > N + 1)
    BY <1>1
  <2> QED
    BY <2>1, <2>2
<1>4. ASSUME NEW k \in S PROVE k + 1 \in S
  <2>1. PICK f \in From1 : \A i \in 1 .. N + 1 : i + k > N + 1 => f[i] = Body(f, i)
    OBVIOUS
  <2> DEFINE g == [i \in 1 .. N + 1 |-> Body(f, i)]
  <2>2. g \in From1
    BY <1>2
  <2>3. \A i \in 1 .. N + 1 : i + k > N + 1 => g[i] = f[i]
    BY <2>1
  <2>4. ASSUME NEW i \in 1 .. N + 1, i + (k + 1) > N + 1 PROVE g[i] = Body(g, i)
    <3>1. CASE i = N + 1
      BY <3>1
    <3>2. CASE i # N + 1
      <4>1. i + 1 \in 1 .. N + 1 /\ (i + 1) + k > N + 1
        BY <1>1, <2>4, <3>2
      <4>2. g[i + 1] = f[i + 1]
        BY <2>3, <4>1
      <4>3. g[i] = Body(f, i)
        OBVIOUS
      <4> QED
        BY <4>2, <4>3
    <3> QED
      BY <3>1, <3>2
  <2>5. \E q \in From1 : \A i \in 1 .. N + 1 : i + (k + 1) > N + 1 => q[i] = Body(q, i)
    <3> HIDE DEF g, From1, Body, N
    <3> QED
      BY <2>2, <2>4
  <2>6. k + 1 \in Nat
    OBVIOUS
  <2> QED
    BY <2>5, <2>6
<1>5. PICK f \in From1 : \A i \in 1 .. N + 1 : f[i] = Body(f, i)
  <2>1. S = Nat
    <3>1. S \in SUBSET Nat
      OBVIOUS
    <3> HIDE DEF S
    <3> QED
      BY <1>3, <1>4, <3>1, Induct
  <2>2. N + 1 \in S
    <3> HIDE DEF S
    <3> QED
      BY <1>1, <2>1
  <2>3. \A i \in 1 .. N + 1 : i + (N + 1) > N + 1
    BY <1>1
  <2> QED
    BY <2>2, <2>3
<1>6. \E q : q = [i \in 1 .. N + 1 |-> IF i = N + 1 THEN Len(h) + 1
                                       ELSE LastPlace(h, n[i], ignoreCase, q[i + 1])]
  BY <1>5
<1>7. r = [i \in 1 .. N + 1 |-> IF i = N + 1 THEN Len(h) + 1
                                ELSE LastPlace(h, n[i], ignoreCase, r[i + 1])]
  BY <1>6 DEF Rightmost
<1>8. \A i \in 1 .. N + 1 : r[i] = Body(r, i)
  BY <1>7
\* r is typed: by induction, from the end.
<1> DEFINE T == { k \in Nat : \A i \in 1 .. N + 1 : i + k > N + 1 => r[i] \in 0 .. Len(h) + 1 }
<1>9. T = Nat
  <2>1. 0 \in T
    BY <1>1
  <2>2. ASSUME NEW k \in T PROVE k + 1 \in T
    <3>1. ASSUME NEW i \in 1 .. N + 1, i + (k + 1) > N + 1, i # N + 1
          PROVE  r[i] \in 0 .. Len(h) + 1
      <4>1. i + 1 \in 1 .. N + 1 /\ (i + 1) + k > N + 1
        BY <1>1, <3>1
      <4>2. r[i + 1] \in 0 .. Len(h) + 1
        BY <4>1
      <4>3. LastPlace(h, n[i], ignoreCase, r[i + 1]) \in 0 .. Len(h)
        BY <4>2, LastPlaceIs
      <4> QED
        BY <1>1, <1>8, <3>1, <4>3
    <3>2. r[N + 1] \in 0 .. Len(h) + 1
      BY <1>1, <1>8
    <3> QED
      BY <3>1, <3>2
  <2> T \in SUBSET Nat
    OBVIOUS
  <2> HIDE DEF T
  <2> QED
    BY <2>1, <2>2, Induct
<1>10. \A i \in 1 .. N + 1 : r[i] \in 0 .. Len(h) + 1
  <2>1. N + 1 \in T
    BY <1>1, <1>9
  <2>2. \A i \in 1 .. N + 1 : i + (N + 1) > N + 1
    BY <1>1
  <2> QED
    BY <2>1, <2>2
<1>11. r \in [1 .. N + 1 -> 0 .. Len(h) + 1]
  BY <1>7, <1>10
<1>12. r[N + 1] = Len(h) + 1
  BY <1>1, <1>8
<1>13. \A i \in 1 .. Len(n) : r[i] = LastPlace(h, n[i], ignoreCase, r[i + 1])
  BY <1>1, <1>8
<1> QED
  BY <1>11, <1>12, <1>13

\* What one step of the pre-scan leaves: the last place before the next one's.
LEMMA RightmostSteps ==
  ASSUME NEW h \in Seq(STRING), NEW n \in Seq(STRING), NEW ignoreCase,
         NEW r, r = Rightmost(h, n, ignoreCase), NEW i \in 1 .. Len(n)
  PROVE  /\ r[i] \in 0 .. Len(h)
         /\ r[i] # 0 => r[i] < r[i + 1] /\ Fold(h[r[i]], ignoreCase) = n[i]
         /\ \A j \in 1 .. (r[i + 1] - 1) : Fold(h[j], ignoreCase) = n[i] => j <= r[i]
<1>1. r[i + 1] \in 0 .. Len(h) + 1 /\ r[i] = LastPlace(h, n[i], ignoreCase, r[i + 1])
  BY RightmostIs
<1> QED
  BY <1>1, LastPlaceIs

\* When the pre-scan has found the first character it has found them all, in order: the
\* places it found are themselves an embedding of the needle, and never more than fit.
LEMMA RightmostEmbeds ==
  ASSUME NEW h \in Seq(STRING), NEW n \in Seq(STRING), NEW ignoreCase,
         NEW r, r = Rightmost(h, n, ignoreCase), n # <<>>, r[1] # 0
  PROVE  /\ \A i \in 1 .. Len(n) : /\ r[i] \in i .. Len(h) /\ r[i] < r[i + 1]
                                   /\ Fold(h[r[i]], ignoreCase) = n[i]
         /\ \A i, k \in 1 .. Len(n) : i < k => r[i] < r[k]
         /\ Len(n) <= Len(h)
<1> DEFINE N == Len(n)
           S == { k \in Nat : k < N => r[k + 1] > k }
           T == { d \in Nat : \A i \in 1 .. N : i + d + 1 <= N => r[i] < r[i + d + 1] }
<1>1. N \in Nat \ {0} /\ Len(h) \in Nat
  OBVIOUS
<1>2. \A i \in 1 .. N : /\ r[i] \in 0 .. Len(h)
                        /\ r[i] # 0 => r[i] < r[i + 1] /\ Fold(h[r[i]], ignoreCase) = n[i]
  BY RightmostSteps
<1> HIDE DEF N
<1>3. S = Nat
  <2>1. 0 \in S
    BY <1>1, <1>2
  <2>2. ASSUME NEW k \in S PROVE k + 1 \in S
    <3>1. CASE k + 1 < N
      <4>1. k + 1 \in 1 .. N /\ k + 2 \in 1 .. N /\ r[k + 1] > k
        BY <1>1, <3>1
      <4>2. r[k + 1] < r[k + 2] /\ r[k + 1] \in Int /\ r[k + 2] \in Int
        BY <1>2, <4>1
      <4> QED
        BY <4>1, <4>2
    <3>2. CASE ~ (k + 1 < N)
      BY <3>2
    <3> QED
      BY <3>1, <3>2
  <2> S \in SUBSET Nat
    OBVIOUS
  <2> HIDE DEF S
  <2> QED
    BY <2>1, <2>2, Induct
<1>4. \A i \in 1 .. N : r[i] >= i
  <2> TAKE i \in 1 .. N
  <2>1. i - 1 \in S
    <3> HIDE DEF S
    <3> QED
      BY <1>1, <1>3
  <2> QED
    BY <1>1, <1>2, <2>1
<1>5. \A i \in 1 .. N : /\ r[i] \in i .. Len(h) /\ r[i] < r[i + 1]
                        /\ Fold(h[r[i]], ignoreCase) = n[i]
  <2> TAKE i \in 1 .. N
  <2>1. r[i] # 0
    BY <1>1, <1>2, <1>4
  <2> QED
    BY <1>1, <1>2, <1>4, <2>1
<1>6. T = Nat
  <2>1. 0 \in T
    BY <1>1, <1>5
  <2>2. ASSUME NEW d \in T PROVE d + 1 \in T
    <3>1. ASSUME NEW i \in 1 .. N, i + (d + 1) + 1 <= N PROVE r[i] < r[i + (d + 1) + 1]
      <4>1. i + d + 1 \in 1 .. N /\ i + (d + 1) + 1 \in 1 .. N
        BY <1>1, <3>1
      <4>2. r[i] < r[i + d + 1]
        BY <1>1, <3>1, <4>1
      <4>3. r[i + d + 1] < r[(i + d + 1) + 1]
        BY <1>5, <4>1
      <4>4. (i + d + 1) + 1 = i + (d + 1) + 1
        BY <1>1
      <4> QED
        BY <1>5, <4>1, <4>2, <4>3, <4>4
    <3> QED
      BY <3>1
  <2> T \in SUBSET Nat
    OBVIOUS
  <2> HIDE DEF T
  <2> QED
    BY <2>1, <2>2, Induct
<1>7. \A i, k \in 1 .. N : i < k => r[i] < r[k]
  <2> SUFFICES ASSUME NEW i \in 1 .. N, NEW k \in 1 .. N, i < k PROVE r[i] < r[k]
    OBVIOUS
  <2>1. k - i - 1 \in T /\ i + (k - i - 1) + 1 = k
    <3> HIDE DEF T
    <3> QED
      BY <1>1, <1>6
  <2> QED
    BY <1>1, <2>1
<1>8. N <= Len(h)
  <2>1. N \in 1 .. N
    BY <1>1
  <2>2. r[N] \in N .. Len(h)
    BY <1>5, <2>1
  <2> QED
    BY <1>1, <2>2
<1> QED
  BY <1>5, <1>7, <1>8 DEF N

\* A needle is embedded in the candidate exactly when the pre-scan finds it.
THEOREM FoundWhenMatches ==
  ASSUME NEW h \in Seq(STRING), NEW n \in Seq(STRING), NEW ignoreCase,
         NEW r, r = Rightmost(h, n, ignoreCase), n # <<>>
  PROVE  Matches(h, n, ignoreCase) <=> r[1] # 0
<1> DEFINE N == Len(n)
<1>1. N \in Nat \ {0} /\ Len(h) \in Nat
  OBVIOUS
<1>2. ASSUME r[1] # 0 PROVE Matches(h, n, ignoreCase)
  <2> DEFINE f == [i \in DOMAIN n |-> r[i]]
  <2>1. /\ \A i \in 1 .. N : /\ r[i] \in i .. Len(h)
                             /\ Fold(h[r[i]], ignoreCase) = n[i]
        /\ \A i, k \in 1 .. N : i < k => r[i] < r[k]
    BY <1>2, RightmostEmbeds
  <2>2. f \in [DOMAIN n -> DOMAIN h]
    BY <1>1, <2>1
  <2>3. /\ \A i, k \in DOMAIN n : i < k => f[i] < f[k]
        /\ \A i \in DOMAIN n : Fold(h[f[i]], ignoreCase) = n[i]
    BY <1>1, <2>1
  <2> QED
    BY <2>2, <2>3 DEF Matches
<1>3. ASSUME Matches(h, n, ignoreCase) PROVE r[1] # 0
  <2>1. PICK f \in [DOMAIN n -> DOMAIN h] :
          /\ \A i, k \in DOMAIN n : i < k => f[i] < f[k]
          /\ \A i \in DOMAIN n : Fold(h[f[i]], ignoreCase) = n[i]
    BY <1>3 DEF Matches
  <2>2. DOMAIN n = 1 .. N /\ DOMAIN h = 1 .. Len(h)
    OBVIOUS
  <2>3. \A i, k \in 1 .. N : i < k => f[i] < f[k]
    BY <2>1, <2>2
  <2> DEFINE S == { k \in Nat : \A i \in 1 .. N : i + k >= N => f[i] <= r[i] }
  <2>4. \A i \in 1 .. N : f[i] < r[i + 1] => f[i] <= r[i]
    <3> TAKE i \in 1 .. N
    <3>1. f[i] \in 1 .. Len(h) /\ Fold(h[f[i]], ignoreCase) = n[i]
      BY <2>1, <2>2
    <3>2. i + 1 \in 1 .. N + 1
      BY <1>1
    <3>3. r[i + 1] \in 0 .. Len(h) + 1
      <4>1. r \in [1 .. N + 1 -> 0 .. Len(h) + 1]
        BY RightmostIs
      <4> QED
        BY <3>2, <4>1
    <3> QED
      BY <1>1, <3>1, <3>3, RightmostSteps
  <2>5. \A i \in 1 .. N : f[i] \in 1 .. Len(h) /\ r[i] \in 0 .. Len(h)
    BY <2>1, <2>2, RightmostSteps
  <2>6. r[N + 1] = Len(h) + 1
    BY RightmostIs
  <2> HIDE DEF N
  <2>7. 0 \in S
    <3>1. N \in 1 .. N
      BY <1>1
    <3>2. f[N] < r[N + 1]
      BY <1>1, <2>5, <2>6, <3>1
    <3>3. f[N] <= r[N]
      BY <2>4, <3>1, <3>2
    <3>4. \A i \in 1 .. N : i + 0 >= N => i = N
      BY <1>1
    <3> QED
      BY <3>3, <3>4
  <2>8. ASSUME NEW k \in S PROVE k + 1 \in S
    <3>1. ASSUME NEW i \in 1 .. N, i + (k + 1) >= N, i # N PROVE f[i] <= r[i]
      <4>1. i + 1 \in 1 .. N /\ (i + 1) + k >= N
        BY <1>1, <3>1
      <4>2. f[i + 1] <= r[i + 1]
        BY <4>1
      <4>3. f[i] < f[i + 1]
        BY <1>1, <2>3, <4>1
      <4>4. f[i] < r[i + 1]
        BY <2>5, <4>1, <4>2, <4>3
      <4> QED
        BY <2>4, <4>4
    <3>2. f[N] <= r[N]
      BY <1>1
    <3> QED
      BY <1>1, <3>1, <3>2
  <2>9. S = Nat
    <3> S \in SUBSET Nat
      OBVIOUS
    <3> HIDE DEF S
    <3> QED
      BY <2>7, <2>8, Induct
  <2>10. f[1] <= r[1]
    <3>1. N \in S
      BY <1>1, <2>9
    <3> QED
      BY <1>1, <3>1
  <2> QED
    BY <1>1, <2>5, <2>10
<1> QED
  BY <1>2, <1>3

-----------------------------------------------------------------------------
(***************************************************************************)
(* The numbers.                                                             *)
(***************************************************************************)

\* A quotient against a bound.
LEMMA Quotient ==
  ASSUME NEW a \in Nat, NEW b \in Nat \ {0}, NEW k \in Nat
  PROVE  /\ a \div b \in Nat /\ b * (a \div b) <= a
         /\ b * k <= a => k <= a \div b
<1>1. a \div b \in Nat /\ b * (a \div b) <= a /\ a < b * (a \div b) + b
  OBVIOUS
<1>2. ASSUME b * k <= a, ~ (k <= a \div b) PROVE FALSE
  <2>1. k >= (a \div b) + 1
    BY <1>1, <1>2
  <2>2. b * k >= b * ((a \div b) + 1)
    BY <1>1, <2>1
  <2>3. b * ((a \div b) + 1) = b * (a \div b) + b
    BY <1>1
  <2> QED
    BY <1>1, <1>2, <2>2, <2>3
<1> QED
  BY <1>1, <1>2

\* max_score_per_char: the needle's whole share is at most 1 when it fits in the candidate,
\* and a share does not vanish when the scale is fine enough.
LEMMA PerCharIs ==
  ASSUME NEW h \in Seq(STRING), NEW n \in Seq(STRING), h # <<>>, n # <<>>
  PROVE  /\ PerChar(h, n) \in Nat
         /\ Len(n) <= Len(h) => Len(n) * PerChar(h, n) <= Scale
         /\ Scale >= 5 * Len(n) * Len(h) => PerChar(h, n) >= 2 * Len(h)
<1> DEFINE H == Len(h)
           N == Len(n)
           a == Scale * (H + N)
           b == 2 * H * N
           P == PerChar(h, n)
<1>1. H \in Nat \ {0} /\ N \in Nat \ {0} /\ Scale \in Nat \ {0}
  BY ScaleAssumption
<1>2. P = a \div b
  BY DEF PerChar
<1> HIDE DEF H, N, P
<1>3. a \in Nat /\ b \in Nat \ {0}
  <2>1. H * N \in Nat \ {0}
    BY <1>1
  <2>2. 2 * H * N = 2 * (H * N)
    BY <1>1
  <2> QED
    BY <1>1, <2>1, <2>2
<1>4. P \in Nat /\ b * P <= a
  <2> HIDE DEF a, b
  <2> QED
    BY <1>2, <1>3, Quotient
<1>5. ASSUME N <= H PROVE N * P <= Scale
  <2>1. a <= (2 * H) * Scale
    <3>1. Scale * (H + N) <= Scale * (2 * H)
      BY <1>1, <1>5
    <3> QED
      BY <1>1, <3>1
  <2>2. b * P = (2 * H) * (N * P)
    BY <1>1, <1>4
  <2>3. (2 * H) * (N * P) <= (2 * H) * Scale
    <3>1. b * P \in Int
      BY <1>3, <1>4
    <3> HIDE DEF a, b
    <3> QED
      BY <1>1, <1>3, <1>4, <2>1, <2>2, <3>1
  <2>4. N * P \in Nat /\ 2 * H \in Nat \ {0}
    BY <1>1, <1>4
  <2> QED
    BY <1>1, <2>3, <2>4
<1>6. ASSUME Scale >= 5 * N * H PROVE P >= 2 * H
  <2>1. (5 * N * H) * (H + N) <= Scale * (H + N)
    <3>1. 5 * N * H \in Nat /\ H + N \in Nat
      BY <1>1
    <3> QED
      BY <1>1, <1>6, <3>1
  <2>2. (5 * N * H) * (H + N) = b * (2 * H) + N * H * H + 5 * N * H * N
    BY <1>1
  <2>3. N * H * H \in Nat /\ 5 * N * H * N \in Nat /\ b * (2 * H) \in Nat
    BY <1>1, <1>3
  <2>4. b * (2 * H) <= a
    BY <1>3, <2>1, <2>2, <2>3
  <2> HIDE DEF a, b
  <2> QED
    BY <1>1, <1>2, <1>3, <2>4, Quotient
<1> QED
  BY <1>4, <1>5, <1>6 DEF H, N, P

\* What a match is worth: a share of max_score_per_char, and something whenever the scale
\* is fine enough.
LEMMA CharScoreIs ==
  ASSUME NEW m, m.h \in Seq(STRING), m.n \in Seq(STRING), m.n # <<>>,
         NEW j \in 1 .. Len(m.h), NEW last \in 1 .. Len(m.h)
  PROVE  /\ CharScore(m, j, last) \in 0 .. PerChar(m.h, m.n)
         /\ Scale >= 5 * Len(m.n) * Len(m.h) => CharScore(m, j, last) >= 1
<1> DEFINE P == PerChar(m.h, m.n)
           H == Len(m.h)
           d == j - last
           s == CharScore(m, j, last)
           fine == Scale >= 5 * Len(m.n) * Len(m.h)
<1> SUFFICES s \in 0 .. P /\ (fine => s >= 1)
  OBVIOUS
<1>1. P \in Nat /\ (fine => P >= 2 * H) /\ H \in Nat \ {0}
  <2>1. m.h # <<>> /\ H \in Nat \ {0}
    OBVIOUS
  <2> QED
    BY <2>1, PerCharIs
<1>2. \/ s = P
      \/ s = (P * 9) \div 10
      \/ s = (P * 4) \div 5
      \/ s = (P * 7) \div 10
      \/ d > 1 /\ s = (P * 3) \div (4 * d)
  <2>1. \/ s = P
        \/ s = (P * 9) \div 10
        \/ s = (P * 4) \div 5
        \/ s = (P * 7) \div 10
        \/ ~ (d <= 1) /\ s = (P * 3) \div (4 * d)
    BY DEF CharScore
  <2>2. d \in Int
    BY <1>1
  <2> QED
    BY <2>1, <2>2
<1>3. d \in Int /\ d < H
  BY <1>1
<1> HIDE DEF P, H, d, s, fine
<1>4. CASE s = P
  BY <1>1, <1>4
<1>5. CASE s = (P * 9) \div 10
  BY <1>1, <1>5
<1>6. CASE s = (P * 4) \div 5
  BY <1>1, <1>6
<1>7. CASE s = (P * 7) \div 10
  BY <1>1, <1>7
<1>8. CASE d > 1 /\ s = (P * 3) \div (4 * d)
  <2>1. P * 3 \in Nat /\ 4 * d \in Nat \ {0}
    BY <1>1, <1>3, <1>8
  <2>2. s \in Nat /\ (4 * d) * s <= P * 3 /\ ((4 * d) * 1 <= P * 3 => 1 <= s)
    BY <1>8, <2>1, Quotient
  <2>3. s <= P
    <3>1. d * s >= s /\ d * s \in Nat
      BY <1>3, <1>8, <2>2
    <3>2. (4 * d) * s = 4 * (d * s)
      BY <1>3, <2>2
    <3> QED
      BY <1>1, <2>2, <3>1, <3>2
  <2>4. fine => s >= 1
    BY <1>1, <1>3, <1>8, <2>2
  <2> QED
    BY <1>1, <2>2, <2>3, <2>4
<1> QED
  BY <1>2, <1>4, <1>5, <1>6, <1>7, <1>8

-----------------------------------------------------------------------------
(***************************************************************************)
(* The search ends: every place's value rests on places of a lower rank, so *)
(* the recursive definition of Match has a solution and Match obeys it.     *)
(***************************************************************************)

\* recursive_match is called once the pre-scan has found the needle.
Ready(m) ==
  /\ m.h \in Seq(STRING) /\ m.n \in Seq(STRING) /\ m.n # <<>>
  /\ m.r = Rightmost(m.h, m.n, m.ignoreCase) /\ m.r[1] # 0

Result(m) == [value : Int, memo : Memo(m)]

\* What is left to look at from a place on.
RankOf(N, H, i, j) == (N + 1 - i) * (H + 3) + (H + 2 - j)
Rank(m, c) == RankOf(Len(m.n), Len(m.h), c.i, c.j)

\* What the search is started with.
LEMMA ReadyIs ==
  ASSUME NEW m, Ready(m)
  PROVE  /\ Len(m.n) \in Nat \ {0} /\ Len(m.h) \in Nat \ {0} /\ Len(m.n) <= Len(m.h)
         /\ \A i \in 1 .. Len(m.n) : /\ m.r[i] \in 1 .. Len(m.h)
                                     /\ Fold(m.h[m.r[i]], m.ignoreCase) = m.n[i]
                                     /\ m.r[i] <= m.r[Len(m.n)]
         /\ \A i, k \in 1 .. Len(m.n) : i < k => m.r[i] < m.r[k]
<1>1. /\ m.h \in Seq(STRING) /\ m.n \in Seq(STRING) /\ m.n # <<>>
      /\ m.r = Rightmost(m.h, m.n, m.ignoreCase) /\ m.r[1] # 0
  BY DEF Ready
<1>2. Len(m.n) \in Nat \ {0} /\ Len(m.h) \in Nat
  BY <1>1
<1>3. /\ \A i \in 1 .. Len(m.n) : /\ m.r[i] \in i .. Len(m.h)
                                  /\ Fold(m.h[m.r[i]], m.ignoreCase) = m.n[i]
      /\ \A i, k \in 1 .. Len(m.n) : i < k => m.r[i] < m.r[k]
      /\ Len(m.n) <= Len(m.h)
  BY <1>1, RightmostEmbeds
<1>4. \A i \in 1 .. Len(m.n) : m.r[i] \in 1 .. Len(m.h)
  BY <1>2, <1>3
<1>5. \A i \in 1 .. Len(m.n) : m.r[i] <= m.r[Len(m.n)]
  BY <1>2, <1>3, <1>4
<1> QED
  BY <1>2, <1>3, <1>4, <1>5

\* The next place of the same character, and any place of the next one, rank lower.
LEMMA RankFalls ==
  ASSUME NEW N \in Nat, NEW H \in Nat, NEW i \in 1 .. N + 1, NEW j \in 1 .. H + 1
  PROVE  /\ RankOf(N, H, i, j) \in Nat
         /\ RankOf(N, H, i, j + 1) < RankOf(N, H, i, j)
         /\ \A k \in 1 .. H + 1 : RankOf(N, H, i + 1, k) < RankOf(N, H, i, j)
         /\ RankOf(N, H, i, j) <= RankOf(N, H, 1, 1)
<1>1. N + 1 - i \in Nat /\ H + 3 \in Nat /\ H + 2 - j \in Nat
  OBVIOUS
<1>2. (N + 1 - (i + 1)) * (H + 3) = (N + 1 - i) * (H + 3) - (H + 3)
  OBVIOUS
<1>3. (N + 1 - i) * (H + 3) \in Nat
  BY <1>1
<1>4. (N + 1 - i) * (H + 3) <= N * (H + 3)
  BY <1>1
<1>5. (N + 1 - 1) * (H + 3) = N * (H + 3)
  BY <1>1
<1> QED
  BY <1>1, <1>2, <1>3, <1>4, <1>5 DEF RankOf

\* The rank the search starts with is a natural.
LEMMA RankStarts ==
  ASSUME NEW N \in Nat, NEW H \in Nat
  PROVE  RankOf(N, H, 1, 1) \in Nat
<1>1. N * (H + 3) \in Nat /\ (N + 1 - 1) * (H + 3) = N * (H + 3)
  OBVIOUS
<1> QED
  BY <1>1 DEF RankOf

\* The fields of a place.
LEMMA PlaceIs ==
  ASSUME NEW m, Ready(m), NEW c \in Place(m)
  PROVE  /\ c.i \in 1 .. Len(m.n) + 1 /\ c.j \in 1 .. Len(m.h) + 1
         /\ c.from \in 1 .. Len(m.h) + 1 /\ c.last \in 1 .. Len(m.h)
         /\ c.score \in Int /\ c.seen \in Int /\ c.memo \in Memo(m)
         /\ Rank(m, c) \in Nat
<1>1. /\ c.i \in 1 .. Len(m.n) + 1 /\ c.j \in 1 .. Len(m.h) + 1
      /\ c.from \in 1 .. Len(m.h) + 1 /\ c.last \in 1 .. Len(m.h)
      /\ c.score \in Int /\ c.seen \in Int /\ c.memo \in Memo(m)
  BY DEF Place
<1>2. Rank(m, c) \in Nat
  BY <1>1, ReadyIs, RankFalls DEF Rank
<1> QED
  BY <1>1, <1>2

\* The places the search goes on to from c are places, and of a lower rank.
LEMMA PlacesAfter ==
  ASSUME NEW m, Ready(m), NEW c \in Place(m), c.i <= Len(m.n)
  PROVE  /\ NextCharacter(c) \in Place(m) /\ Rank(m, NextCharacter(c)) < Rank(m, c)
         /\ c.j <= m.r[c.i] =>
              /\ <<c.j, c.i>> \in (1 .. m.r[Len(m.n)]) \X (1 .. Len(m.n))
              /\ NextPlace(c) \in Place(m) /\ Rank(m, NextPlace(c)) < Rank(m, c)
              /\ Skipping(c) \in Place(m) /\ Rank(m, Skipping(c)) < Rank(m, c)
              /\ \A points \in Int, seen \in Int, memo \in Memo(m) :
                   /\ Taking(c, points, seen, memo) \in Place(m)
                   /\ Rank(m, Taking(c, points, seen, memo)) < Rank(m, c)
<1> DEFINE H == Len(m.h)
           N == Len(m.n)
<1>1. /\ c.i \in 1 .. N + 1 /\ c.i <= N /\ c.j \in 1 .. H + 1 /\ c.from \in 1 .. H + 1
      /\ c.last \in 1 .. H /\ c.score \in Int /\ c.seen \in Int /\ c.memo \in Memo(m)
  BY PlaceIs
<1>2. /\ N \in Nat \ {0} /\ H \in Nat \ {0} /\ N <= H
      /\ \A i \in 1 .. N : m.r[i] \in 1 .. H /\ m.r[i] <= m.r[N]
  BY ReadyIs
<1>3. c.i + 1 \in 1 .. N + 1 /\ c.i \in 1 .. N
  BY <1>1, <1>2
<1>4. \A d : Rank(m, d) = RankOf(N, H, d.i, d.j)
  BY DEF Rank
<1>5. /\ NextCharacter(c) \in Place(m)
      /\ NextCharacter(c).i = c.i + 1 /\ NextCharacter(c).j = c.from
  BY <1>1, <1>3 DEF Place, NextCharacter
<1>6. Rank(m, NextCharacter(c)) < Rank(m, c)
  BY <1>1, <1>2, <1>4, <1>5, RankFalls
<1>7. ASSUME c.j <= m.r[c.i]
      PROVE  /\ <<c.j, c.i>> \in (1 .. m.r[Len(m.n)]) \X (1 .. Len(m.n))
             /\ NextPlace(c) \in Place(m) /\ Rank(m, NextPlace(c)) < Rank(m, c)
             /\ Skipping(c) \in Place(m) /\ Rank(m, Skipping(c)) < Rank(m, c)
             /\ \A points \in Int, seen \in Int, memo \in Memo(m) :
                  /\ Taking(c, points, seen, memo) \in Place(m)
                  /\ Rank(m, Taking(c, points, seen, memo)) < Rank(m, c)
  <2>1. m.r[c.i] \in 1 .. H /\ m.r[c.i] <= m.r[N] /\ m.r[N] \in 1 .. H
    BY <1>2, <1>3
  <2>2. c.j \in 1 .. H /\ c.j + 1 \in 1 .. H + 1 /\ c.j \in 1 .. m.r[N]
    <3>1. PICK j, here, last, h : j = c.j /\ here = m.r[c.i] /\ last = m.r[N] /\ h = H
      OBVIOUS
    <3>2. /\ h \in Nat /\ j \in 1 .. h + 1 /\ here \in 1 .. h /\ last \in 1 .. h
          /\ here <= last /\ j <= here
      BY <1>1, <1>2, <1>7, <2>1, <3>1
    <3>3. j \in 1 .. h /\ j + 1 \in 1 .. h + 1 /\ j \in 1 .. last
      BY <3>2
    <3> QED BY <3>1, <3>3
  <2>3. <<c.j, c.i>> \in (1 .. m.r[N]) \X (1 .. N)
    BY <1>3, <2>2
  <2>4. ASSUME NEW d \in Place(m), d.i = c.i, d.j = c.j + 1
        PROVE  Rank(m, d) < Rank(m, c)
    BY <1>1, <1>2, <1>4, <2>4, RankFalls
  <2>5. /\ NextPlace(c) \in Place(m) /\ NextPlace(c).i = c.i /\ NextPlace(c).j = c.j + 1
    BY <2>2 DEF Place, NextPlace
  <2>6. /\ Skipping(c) \in Place(m) /\ Skipping(c).i = c.i /\ Skipping(c).j = c.j + 1
    <3>1. PICK z \in Int : z = 0
      OBVIOUS
    <3>2. Skipping(c) = [c EXCEPT !.j = c.j + 1, !.from = c.j + 1, !.seen = z]
      BY <3>1 DEF Skipping
    <3>3. [c EXCEPT !.j = c.j + 1, !.from = c.j + 1, !.seen = z] \in Place(m)
      BY <2>2 DEF Place
    <3>4. Skipping(c) \in Place(m)
      BY <3>2, <3>3
    <3>5. Skipping(c).i = c.i /\ Skipping(c).j = c.j + 1
      BY DEF Place, Skipping
    <3> QED
      BY <3>4, <3>5
  <2>7. ASSUME NEW points \in Int, NEW seen \in Int, NEW memo \in Memo(m)
        PROVE  /\ Taking(c, points, seen, memo) \in Place(m)
               /\ Taking(c, points, seen, memo).i = c.i
               /\ Taking(c, points, seen, memo).j = c.j + 1
    BY <2>2 DEF Place, Taking
  <2> QED
    BY <2>3, <2>4, <2>5, <2>6, <2>7
<1> QED
  BY <1>5, <1>6, <1>7

\* What comes of a place is a result, and rests on places of a lower rank only.
LEMMA FromRests ==
  ASSUME NEW m, Ready(m), NEW f, NEW g, NEW c \in Place(m),
         \A d \in Place(m) : Rank(m, d) < Rank(m, c) => f[d] \in Result(m) /\ f[d] = g[d]
  PROVE  From(m, f, c) \in Result(m) /\ From(m, f, c) = From(m, g, c)
<1> DEFINE cell == <<c.j, c.i>>
           skipped == IF c.j < m.r[c.i] THEN f[Skipping(c)]
                      ELSE [value |-> 0, memo |-> c.memo]
           best == Greater(c.seen, skipped.value)
           taken == c.score + CharScore(m, c.j, c.last)
           cellValue == Greater(best, taken)
           left == [skipped.memo EXCEPT ![cell] = cellValue]
<1>1. /\ c.i \in 1 .. Len(m.n) + 1 /\ c.j \in 1 .. Len(m.h) + 1
      /\ c.last \in 1 .. Len(m.h)
      /\ c.score \in Int /\ c.seen \in Int /\ c.memo \in Memo(m)
      /\ Len(m.n) \in Nat \ {0} /\ Len(m.h) \in Nat \ {0}
      /\ \A i \in 1 .. Len(m.n) : m.r[i] \in 1 .. Len(m.h)
  BY PlaceIs, ReadyIs
<1>2. \A v \in Int, memo \in Memo(m) : [value |-> v, memo |-> memo] \in Result(m)
  BY DEF Result
<1>3. \A d \in Place(m) : Rank(m, d) < Rank(m, c) => f[d] \in Result(m) /\ f[d] = g[d]
  OBVIOUS
<1>4. CASE c.i > Len(m.n)
  <2>1. /\ From(m, f, c) = [value |-> c.score, memo |-> c.memo]
        /\ From(m, g, c) = [value |-> c.score, memo |-> c.memo]
    BY <1>4 DEF From
  <2> QED
    BY <1>1, <1>2, <2>1
<1>5. CASE ~ (c.i > Len(m.n)) /\ c.j > m.r[c.i]
  <2>1. /\ From(m, f, c) = f[NextCharacter(c)]
        /\ From(m, g, c) = g[NextCharacter(c)]
    BY <1>5 DEF From
  <2>2. NextCharacter(c) \in Place(m) /\ Rank(m, NextCharacter(c)) < Rank(m, c)
    <3>1. c.i <= Len(m.n)
      BY <1>1, <1>5
    <3> QED
      BY <3>1, PlacesAfter
  <2> QED
    BY <1>3, <2>1, <2>2
<1>6. CASE ~ (c.i > Len(m.n)) /\ ~ (c.j > m.r[c.i])
  <2>1. c.i \in 1 .. Len(m.n) /\ c.i <= Len(m.n) /\ c.j <= m.r[c.i] /\ c.j \in 1 .. Len(m.h)
    BY <1>1, <1>6
  <2>2. /\ cell \in (1 .. m.r[Len(m.n)]) \X (1 .. Len(m.n))
        /\ NextPlace(c) \in Place(m) /\ Rank(m, NextPlace(c)) < Rank(m, c)
        /\ Skipping(c) \in Place(m) /\ Rank(m, Skipping(c)) < Rank(m, c)
        /\ \A points \in Int, seen \in Int, memo \in Memo(m) :
             /\ Taking(c, points, seen, memo) \in Place(m)
             /\ Rank(m, Taking(c, points, seen, memo)) < Rank(m, c)
    BY <2>1, PlacesAfter
  <2>3. \A memo \in Memo(m), v \in Int : [memo EXCEPT ![cell] = v] \in Memo(m)
    BY <2>2 DEF Memo
  <2>4. \A memo \in Memo(m) : memo[cell] \in Int
    BY <2>2 DEF Memo
  <2>5. CASE DotStops(m, c.j, m.n[c.i])
    <3> DEFINE w == IF c.memo[cell] = Unscored THEN [c.memo EXCEPT ![cell] = 0] ELSE c.memo
    <3>1. /\ From(m, f, c) = [value |-> 0, memo |-> w]
          /\ From(m, g, c) = [value |-> 0, memo |-> w]
      BY <1>6, <2>5 DEF From
    <3>2. w \in Memo(m)
      <4>1. [c.memo EXCEPT ![cell] = 0] \in Memo(m)
        BY <1>1, <2>2 DEF Memo
      <4> QED
        BY <1>1, <4>1
    <3> QED
      BY <1>2, <3>1, <3>2
  <2>6. CASE ~ DotStops(m, c.j, m.n[c.i]) /\ Fold(m.h[c.j], m.ignoreCase) # m.n[c.i]
    <3>1. From(m, f, c) = f[NextPlace(c)] /\ From(m, g, c) = g[NextPlace(c)]
      BY <1>6, <2>6 DEF From
    <3> QED
      BY <1>3, <2>2, <3>1
  <2>7. CASE /\ ~ DotStops(m, c.j, m.n[c.i]) /\ Fold(m.h[c.j], m.ignoreCase) = m.n[c.i]
             /\ c.memo[cell] # Unscored
    <3>1. /\ From(m, f, c) = [value |-> Greater(c.memo[cell], c.seen), memo |-> c.memo]
          /\ From(m, g, c) = [value |-> Greater(c.memo[cell], c.seen), memo |-> c.memo]
      BY <1>6, <2>7 DEF From
    <3>2. Greater(c.memo[cell], c.seen) \in Int
      BY <1>1, <2>4 DEF Greater
    <3> QED
      BY <1>1, <1>2, <3>1, <3>2
  <2>8. CASE /\ ~ DotStops(m, c.j, m.n[c.i]) /\ Fold(m.h[c.j], m.ignoreCase) = m.n[c.i]
             /\ c.memo[cell] = Unscored
    <3>1. skipped \in Result(m)
      <4>1. [value |-> 0, memo |-> c.memo] \in Result(m)
        BY <1>1 DEF Result
      <4> QED
        BY <1>3, <2>2, <4>1
    <3>2. skipped.value \in Int /\ skipped.memo \in Memo(m)
      BY <3>1 DEF Result
    <3>3. CharScore(m, c.j, c.last) \in Int
      <4>1. CharScore(m, c.j, c.last) \in 0 .. PerChar(m.h, m.n)
        BY <1>1, <2>1, CharScoreIs DEF Ready
      <4>2. PerChar(m.h, m.n) \in Nat
        BY <1>1, PerCharIs DEF Ready
      <4> QED
        BY <4>1, <4>2
    <3>4. best \in Int /\ taken \in Int
      BY <1>1, <3>2, <3>3 DEF Greater
    <3>5. cellValue \in Int
      BY <3>4 DEF Greater
    <3>6. left \in Memo(m)
      BY <2>3, <3>2, <3>5
    <3>7. c.j < m.r[c.i] => f[Skipping(c)] = g[Skipping(c)]
      BY <1>3, <2>2
    <3> DEFINE skippedG == IF c.j < m.r[c.i] THEN g[Skipping(c)]
                           ELSE [value |-> 0, memo |-> c.memo]
               bestG == Greater(c.seen, skippedG.value)
               cellValueG == Greater(bestG, taken)
               leftG == [skippedG.memo EXCEPT ![cell] = cellValueG]
    <3>8. skipped = skippedG
      BY <3>7
    <3>9. best = bestG /\ cellValue = cellValueG /\ left = leftG
      BY <3>8
    <3>10. CASE c.i = Len(m.n)
      <4>1. From(m, f, c) = [value |-> cellValue, memo |-> left]
        BY <1>6, <2>8, <3>10 DEF From
      <4>2. From(m, g, c) = [value |-> cellValueG, memo |-> leftG]
        BY <1>6, <2>8, <3>10 DEF From
      <4> QED
        BY <1>2, <3>5, <3>6, <3>9, <4>1, <4>2
    <3>11. CASE c.i # Len(m.n)
      <4>1. From(m, f, c) = f[Taking(c, taken, best, left)]
        BY <1>6, <2>8, <3>11 DEF From
      <4>2. From(m, g, c) = g[Taking(c, taken, bestG, leftG)]
        BY <1>6, <2>8, <3>11 DEF From
      <4>3. /\ Taking(c, taken, best, left) \in Place(m)
            /\ Rank(m, Taking(c, taken, best, left)) < Rank(m, c)
        BY <2>2, <3>4, <3>6
      <4> QED
        BY <1>3, <3>9, <4>1, <4>2, <4>3
    <3> QED
      BY <3>10, <3>11
  <2> QED
    BY <2>5, <2>6, <2>7, <2>8
<1> QED
  BY <1>4, <1>5, <1>6

\* The function of places that Match defines obeys its definition, and has a result for
\* every place: recursive_match always ends.
THEOREM SearchIs ==
  ASSUME NEW m, Ready(m), NEW F, F = CHOOSE f : f = [c \in Place(m) |-> From(m, f, c)]
  PROVE  /\ F \in [Place(m) -> Result(m)]
         /\ \A c \in Place(m) : F[c] = From(m, F, c)
<1> DEFINE Table == [Place(m) -> Result(m)]
           Solves(f, k) == \A c \in Place(m) : Rank(m, c) < k => f[c] = From(m, f, c)
           S == { k \in Nat : \E f \in Table : Solves(f, k) }
           T == { k \in Nat : \A c \in Place(m) : Rank(m, c) < k => F[c] \in Result(m) }
           bound == RankOf(Len(m.n), Len(m.h), 1, 1) + 1
<1>1. \A c \in Place(m) : Rank(m, c) \in Nat /\ Rank(m, c) < bound
  <2> TAKE c \in Place(m)
  <2>1. c.i \in 1 .. Len(m.n) + 1 /\ c.j \in 1 .. Len(m.h) + 1
    BY PlaceIs
  <2>2. Len(m.n) \in Nat /\ Len(m.h) \in Nat
    BY ReadyIs
  <2>3. /\ RankOf(Len(m.n), Len(m.h), c.i, c.j) \in Nat
        /\ RankOf(Len(m.n), Len(m.h), c.i, c.j) <= RankOf(Len(m.n), Len(m.h), 1, 1)
    BY <2>1, <2>2, RankFalls
  <2>4. RankOf(Len(m.n), Len(m.h), 1, 1) \in Int
    BY <2>2 DEF RankOf
  <2> QED
    BY <2>3, <2>4 DEF Rank
<1>2. bound \in Nat
  <2>1. Len(m.n) \in Nat /\ Len(m.h) \in Nat
    BY ReadyIs
  <2>2. RankOf(Len(m.n), Len(m.h), 1, 1) \in Nat
    BY <2>1, RankStarts, Zenon
  <2> QED
    BY <2>2
<1> HIDE DEF bound
<1>3. 0 \in S
  <2>1. [c \in Place(m) |-> [value |-> 0, memo |-> c.memo]] \in Table
    BY PlaceIs DEF Result
  <2>2. \A f : Solves(f, 0)
    BY <1>1
  <2> QED
    BY <2>1, <2>2
<1>4. ASSUME NEW k \in S PROVE k + 1 \in S
  <2>1. PICK f \in Table : Solves(f, k)
    OBVIOUS
  <2> DEFINE g == [c \in Place(m) |-> IF Rank(m, c) <= k THEN From(m, f, c) ELSE f[c]]
  <2>2. g \in Table
    <3>1. \A c \in Place(m) : From(m, f, c) \in Result(m)
      BY FromRests
    <3> QED
      BY <3>1
  <2>3. \A d \in Place(m) : Rank(m, d) < k => f[d] = g[d] /\ f[d] \in Result(m)
    BY <1>1, <2>1
  <2>4. ASSUME NEW c \in Place(m), Rank(m, c) < k + 1 PROVE g[c] = From(m, g, c)
    <3>1. Rank(m, c) <= k
      BY <1>1, <2>4
    <3>2. \A d \in Place(m) : Rank(m, d) < Rank(m, c) => f[d] \in Result(m) /\ f[d] = g[d]
      BY <1>1, <2>3, <3>1
    <3>3. g[c] = From(m, f, c)
      BY <3>1
    <3> HIDE DEF g
    <3>4. From(m, f, c) = From(m, g, c)
      BY <3>2, FromRests
    <3> QED
      BY <3>3, <3>4
  <2>5. \E q \in Table : Solves(q, k + 1)
    <3> HIDE DEF g, Table
    <3> QED
      BY <2>2, <2>4
  <2> QED
    BY <2>5
<1>5. S = Nat
  <2>1. S \in SUBSET Nat
    OBVIOUS
  <2> HIDE DEF S
  <2> QED
    BY <1>3, <1>4, <2>1, Induct
<1>6. PICK f \in Table : Solves(f, bound)
  BY <1>2, <1>5
<1>7. f = [c \in Place(m) |-> From(m, f, c)]
  <2>1. f = [c \in Place(m) |-> f[c]]
    BY <1>6
  <2>2. \A c \in Place(m) : f[c] = From(m, f, c)
    BY <1>1, <1>6
  <2> QED
    BY <2>1, <2>2
<1>8. F = [c \in Place(m) |-> From(m, F, c)]
  BY <1>7
<1>9. \A c \in Place(m) : F[c] = From(m, F, c)
  BY <1>8
<1>10. T = Nat
  <2>1. 0 \in T
    BY <1>1
  <2>2. ASSUME NEW k \in T PROVE k + 1 \in T
    <3>1. ASSUME NEW c \in Place(m), Rank(m, c) < k + 1 PROVE F[c] \in Result(m)
      <4>1. \A d \in Place(m) : Rank(m, d) < Rank(m, c) => F[d] \in Result(m)
        BY <1>1, <3>1
      <4>2. From(m, F, c) \in Result(m)
        BY <4>1, FromRests
      <4> QED
        BY <1>9, <4>2
    <3> QED
      BY <3>1
  <2>3. T \in SUBSET Nat
    OBVIOUS
  <2> HIDE DEF T
  <2> QED
    BY <2>1, <2>2, <2>3, Induct
<1>11. \A c \in Place(m) : F[c] \in Result(m)
  <2>1. bound \in T
    BY <1>2, <1>10
  <2> QED
    BY <1>1, <2>1
<1> QED
  BY <1>8, <1>9, <1>11

-----------------------------------------------------------------------------
(***************************************************************************)
(* What the search returns.                                                 *)
(***************************************************************************)

\* No score passes this.
Most(m) == Len(m.n) * PerChar(m.h, m.n)

\* A score is at least `low`: 0, or 1 where no dot stops the search and no share vanishes.
Floor(m, low) ==
  low = 0 \/ (low = 1 /\ m.dots = "always" /\ Scale >= 5 * Len(m.n) * Len(m.h))

\* The cells of a memo.
CellsOK(m, low, memo) ==
  \A cell \in (1 .. m.r[Len(m.n)]) \X (1 .. Len(m.n)) :
    memo[cell] = Unscored \/ memo[cell] \in low .. Most(m)

\* At k the search for character i stops or answers from the memo.
Stops(m, k, i) == DotStops(m, k, m.n[i])
Meets(m, k, i) == Fold(m.h[k], m.ignoreCase) = m.n[i]

\* The first match of character i from j on, if no dot comes before it, has its cell.
Settled(m, j, i, memo) ==
  \A k \in j .. m.r[i] :
    (/\ ~ Stops(m, k, i) /\ Meets(m, k, i)
     /\ \A l \in j .. k - 1 : ~ Stops(m, l, i) /\ ~ Meets(m, l, i))
    => memo[<<k, i>>] # Unscored

\* The places the search comes to: it never runs past the needle, since what is left of the
\* candidate always holds the character it looks for; and it scores no character twice.
Sound(m, low, c) ==
  /\ c \in Place(m) /\ c.i <= Len(m.n)
  /\ c.j <= m.r[c.i] \/ (c.i < Len(m.n) /\ c.j = m.r[c.i] + 1 /\ c.from = c.j)
  /\ c.score >= 0
  /\ \/ c.score <= (c.i - 1) * PerChar(m.h, m.n)
     \/ c.score <= c.i * PerChar(m.h, m.n) /\ Settled(m, c.j, c.i, c.memo)
  /\ c.seen \in 0 .. Most(m)
  /\ CellsOK(m, low, c.memo)

\* What comes of such a place.
Returns(m, low, c, res) ==
  /\ res \in Result(m) /\ res.value \in low .. Most(m) /\ CellsOK(m, low, res.memo)
  /\ \A cell \in (1 .. m.r[Len(m.n)]) \X (1 .. Len(m.n)) :
       c.memo[cell] # Unscored => res.memo[cell] # Unscored
  /\ Settled(m, c.j, c.i, res.memo)

\* A place where nothing happens changes nothing about the first match after it; at a dot
\* or a match, the first match is there or nowhere.
LEMMA SettledIs ==
  ASSUME NEW m, NEW i, NEW j \in Nat, m.r[i] \in Nat, NEW memo
  PROVE  /\ j > m.r[i] => Settled(m, j, i, memo)
         /\ ~ Stops(m, j, i) /\ ~ Meets(m, j, i) =>
              (Settled(m, j, i, memo) <=> Settled(m, j + 1, i, memo))
         /\ Stops(m, j, i) => Settled(m, j, i, memo)
         /\ Meets(m, j, i) /\ memo[<<j, i>>] # Unscored => Settled(m, j, i, memo)
         /\ (j <= m.r[i] /\ ~ Stops(m, j, i) /\ Meets(m, j, i) /\ Settled(m, j, i, memo)
             => memo[<<j, i>>] # Unscored)
<1>1. ASSUME ~ Stops(m, j, i), ~ Meets(m, j, i)
      PROVE  Settled(m, j, i, memo) <=> Settled(m, j + 1, i, memo)
  <2>1. ASSUME Settled(m, j, i, memo) PROVE Settled(m, j + 1, i, memo)
    <3> SUFFICES ASSUME NEW k \in (j + 1) .. m.r[i], ~ Stops(m, k, i), Meets(m, k, i),
                        \A l \in (j + 1) .. k - 1 : ~ Stops(m, l, i) /\ ~ Meets(m, l, i)
                 PROVE  memo[<<k, i>>] # Unscored
      BY DEF Settled
    <3>1. k \in j .. m.r[i]
      OBVIOUS
    <3>2. \A l \in j .. k - 1 : l = j \/ l \in (j + 1) .. k - 1
      OBVIOUS
    <3> QED
      BY <1>1, <2>1, <3>1, <3>2 DEF Settled
  <2>2. ASSUME Settled(m, j + 1, i, memo) PROVE Settled(m, j, i, memo)
    <3> SUFFICES ASSUME NEW k \in j .. m.r[i], ~ Stops(m, k, i), Meets(m, k, i),
                        \A l \in j .. k - 1 : ~ Stops(m, l, i) /\ ~ Meets(m, l, i)
                 PROVE  memo[<<k, i>>] # Unscored
      BY DEF Settled
    <3>1. k # j
      BY <1>1
    <3>2. k \in (j + 1) .. m.r[i] /\ \A l \in (j + 1) .. k - 1 : l \in j .. k - 1
      BY <3>1
    <3> QED
      BY <2>2, <3>2 DEF Settled
  <2> QED
    BY <2>1, <2>2
<1>2. ASSUME j > m.r[i] PROVE Settled(m, j, i, memo)
  BY <1>2 DEF Settled
<1>3. ASSUME Stops(m, j, i) \/ (Meets(m, j, i) /\ memo[<<j, i>>] # Unscored)
      PROVE  Settled(m, j, i, memo)
  <2> SUFFICES ASSUME NEW k \in j .. m.r[i], ~ Stops(m, k, i), Meets(m, k, i),
                      \A l \in j .. k - 1 : ~ Stops(m, l, i) /\ ~ Meets(m, l, i)
               PROVE  memo[<<k, i>>] # Unscored
    BY DEF Settled
  <2>1. k = j \/ j \in j .. k - 1
    OBVIOUS
  <2> QED
    BY <1>3, <2>1
<1>4. ASSUME j <= m.r[i], ~ Stops(m, j, i), Meets(m, j, i), Settled(m, j, i, memo)
      PROVE  memo[<<j, i>>] # Unscored
  <2>1. j \in j .. m.r[i] /\ \A l \in j .. j - 1 : FALSE
    BY <1>4
  <2> QED
    BY <1>4, <2>1 DEF Settled
<1>5. j > m.r[i] => Settled(m, j, i, memo)
  BY <1>2
<1>6. ~ Stops(m, j, i) /\ ~ Meets(m, j, i) =>
        (Settled(m, j, i, memo) <=> Settled(m, j + 1, i, memo))
  BY <1>1
<1>7. Stops(m, j, i) => Settled(m, j, i, memo)
  BY <1>3
<1>8. Meets(m, j, i) /\ memo[<<j, i>>] # Unscored => Settled(m, j, i, memo)
  BY <1>3
<1>9. j <= m.r[i] /\ ~ Stops(m, j, i) /\ Meets(m, j, i) /\ Settled(m, j, i, memo)
        => memo[<<j, i>>] # Unscored
  BY <1>4
<1> QED
  BY <1>5, <1>6, <1>7, <1>8, <1>9, Zenon

\* Shares of the characters so far.
LEMMA Shares ==
  ASSUME NEW N \in Nat, NEW P \in Nat, NEW i \in 1 .. N
  PROVE  /\ i * P \in Nat /\ (i - 1) * P \in Nat /\ i * P <= N * P
         /\ (i - 1) * P + P = i * P
<1>1. i * P \in Nat /\ (i - 1) * P = i * P - P
  OBVIOUS
<1>2. i - 1 \in Nat /\ N - i \in Nat
  OBVIOUS
<1>3. (i - 1) * P \in Nat /\ (N - i) * P \in Nat
  BY <1>2
<1>4. (N - i) * P = N * P - i * P
  OBVIOUS
<1>5. N * P \in Int
  OBVIOUS
<1> QED
  BY <1>1, <1>3, <1>4, <1>5

\* One place's answer, when the answers of the places of lower rank are what they should be.
LEMMA FromReturns ==
  ASSUME NEW m, Ready(m), NEW low \in {0, 1}, Floor(m, low), NEW f, NEW c, Sound(m, low, c),
         From(m, f, c) \in Result(m), \A d \in Place(m) : f[d] \in Result(m),
         \A d \in Place(m) : Rank(m, d) < Rank(m, c) /\ Sound(m, low, d)
                             => Returns(m, low, d, f[d])
  PROVE  Returns(m, low, c, From(m, f, c))
<1> DEFINE P == PerChar(m.h, m.n)
           N == Len(m.n)
           H == Len(m.h)
           Cells == (1 .. m.r[N]) \X (1 .. N)
           cell == <<c.j, c.i>>
<1>1. /\ c \in Place(m) /\ c.i \in 1 .. N /\ c.i <= N /\ c.j \in 1 .. H + 1
      /\ c.from \in 1 .. H + 1 /\ c.last \in 1 .. H
      /\ c.score \in Nat /\ c.seen \in 0 .. Most(m) /\ c.memo \in Memo(m)
      /\ N \in Nat \ {0} /\ H \in Nat \ {0}
  BY PlaceIs, ReadyIs DEF Sound
<1>2. /\ \A i \in 1 .. N : /\ m.r[i] \in 1 .. H /\ m.r[i] <= m.r[N]
                           /\ Fold(m.h[m.r[i]], m.ignoreCase) = m.n[i]
      /\ \A i, k \in 1 .. N : i < k => m.r[i] < m.r[k]
  BY ReadyIs
<1>3. P \in Nat /\ N * P \in Nat /\ Most(m) = N * P
  <2>1. P \in Nat
    BY <1>1, PerCharIs DEF Ready
  <2> QED
    BY <1>1, <2>1 DEF Most
<1>4. \A i \in 1 .. N : i * P <= N * P /\ i * P \in Nat /\ (i - 1) * P \in Nat
                        /\ (i - 1) * P + P = i * P
  <2> TAKE i \in 1 .. N
  <2> HIDE DEF P, N
  <2> QED
    BY <1>1, <1>3, Shares
<1>5. \A i : m.n[i] = m.n[i] /\ \A k : (Stops(m, k, i) <=> DotStops(m, k, m.n[i]))
                /\ (Meets(m, k, i) <=> Fold(m.h[k], m.ignoreCase) = m.n[i])
  BY DEF Stops, Meets
<1>6. CASE c.j > m.r[c.i]
  <2>1. c.i < N /\ c.j = m.r[c.i] + 1 /\ c.from = c.j
    BY <1>1, <1>2, <1>6 DEF Sound
  <2>2. From(m, f, c) = f[NextCharacter(c)]
    BY <1>1, <1>6 DEF From
  <2>3. /\ NextCharacter(c) \in Place(m) /\ Rank(m, NextCharacter(c)) < Rank(m, c)
    BY <1>1, PlacesAfter
  <2>4. /\ NextCharacter(c).i = c.i + 1 /\ NextCharacter(c).j = c.from
        /\ NextCharacter(c).score = c.score /\ NextCharacter(c).seen = c.seen
        /\ NextCharacter(c).memo = c.memo
    BY <1>1 DEF NextCharacter, Place
  <2>5. c.i + 1 \in 1 .. N /\ c.i + 1 <= N /\ c.from <= m.r[c.i + 1]
    <3>1. PICK i, k : i = c.i /\ k = i + 1
      OBVIOUS
    <3>2. i \in 1 .. N /\ k \in 1 .. N /\ i < k
      BY <1>1, <2>1, <3>1
    <3>3. m.r[i] < m.r[k] /\ m.r[i] \in 1 .. H /\ m.r[k] \in 1 .. H
      BY <1>2, <3>2
    <3>4. c.from = m.r[i] + 1
      BY <2>1, <3>1
    <3>5. c.from <= m.r[k]
      BY <1>1, <3>3, <3>4
    <3> QED BY <3>1, <3>2, <3>5
  <2>6. c.score <= c.i * P
    BY <1>1, <1>3, <1>4 DEF Sound
  <2>7. c.score <= ((c.i + 1) - 1) * P
    BY <1>1, <2>6
  <2>8. Sound(m, low, NextCharacter(c))
    BY <1>1, <2>3, <2>4, <2>5, <2>7 DEF Sound
  <2>9. Returns(m, low, NextCharacter(c), f[NextCharacter(c)])
    BY <2>3, <2>8
  <2>10. \A memo : Settled(m, c.j, c.i, memo)
    <3>1. c.j \in Nat /\ m.r[c.i] \in Nat
      BY <1>1, <1>2
    <3> QED
      BY <1>6, <3>1, SettledIs
  <2> QED
    BY <2>2, <2>4, <2>9, <2>10 DEF Returns
<1>7. CASE ~ (c.j > m.r[c.i])
  <2>1. c.j <= m.r[c.i] /\ c.j \in 1 .. H /\ m.r[c.i] \in 1 .. H
    BY <1>1, <1>2, <1>7
  <2>2. /\ cell \in Cells
        /\ NextPlace(c) \in Place(m) /\ Rank(m, NextPlace(c)) < Rank(m, c)
        /\ Skipping(c) \in Place(m) /\ Rank(m, Skipping(c)) < Rank(m, c)
        /\ \A points \in Int, seen \in Int, memo \in Memo(m) :
             /\ Taking(c, points, seen, memo) \in Place(m)
             /\ Rank(m, Taking(c, points, seen, memo)) < Rank(m, c)
    BY <1>1, <2>1, PlacesAfter
  <2>3. ~ Meets(m, c.j, c.i) => c.j + 1 <= m.r[c.i]
    <3>1. Meets(m, m.r[c.i], c.i)
      BY <1>1, <1>2 DEF Meets
    <3>2. ~ Meets(m, c.j, c.i) => c.j # m.r[c.i]
      BY <3>1
    <3> QED
      BY <2>1, <3>2
  <2>4. CASE Stops(m, c.j, c.i)
    <3> DEFINE w == IF c.memo[cell] = Unscored THEN [c.memo EXCEPT ![cell] = 0] ELSE c.memo
               res == From(m, f, c)
    <3>1. res = [value |-> 0, memo |-> w]
      BY <1>1, <1>5, <1>7, <2>4 DEF From
    <3>2. low = 0
      BY <2>4 DEF Floor, Stops, DotStops
    <3>3. 0 \in low .. Most(m) /\ 0 # Unscored
      BY <1>3, <3>2 DEF Unscored
    <3>4. \A x \in Cells : w[x] = c.memo[x] \/ (x = cell /\ w[x] = 0)
      BY <1>1 DEF Memo
    <3>5. CellsOK(m, low, w)
      BY <1>1, <3>3, <3>4 DEF Sound, CellsOK
    <3>6. \A x \in Cells : c.memo[x] # Unscored => w[x] # Unscored
      BY <3>3, <3>4
    <3>7. Settled(m, c.j, c.i, w)
      BY <2>1, <2>4, SettledIs
    <3>8. res.value = 0 /\ res.memo = w
      BY <3>1
    <3> HIDE DEF w, res
    <3> QED
      BY <3>3, <3>5, <3>6, <3>7, <3>8 DEF Returns, res
  <2>5. CASE ~ Stops(m, c.j, c.i) /\ ~ Meets(m, c.j, c.i)
    <3>1. From(m, f, c) = f[NextPlace(c)]
      BY <1>1, <1>5, <1>7, <2>5 DEF From
    <3>2. /\ NextPlace(c).i = c.i /\ NextPlace(c).j = c.j + 1
          /\ NextPlace(c).score = c.score /\ NextPlace(c).seen = c.seen
          /\ NextPlace(c).memo = c.memo
      BY <1>1 DEF NextPlace, Place
    <3>3. \A memo : Settled(m, c.j, c.i, memo) <=> Settled(m, c.j + 1, c.i, memo)
      <4>1. c.j \in Nat /\ m.r[c.i] \in Nat
        BY <1>1, <1>2
      <4> QED
        BY <2>5, <4>1, SettledIs
    <3>4. Sound(m, low, NextPlace(c))
      BY <1>1, <2>2, <2>3, <2>5, <3>2, <3>3 DEF Sound
    <3>5. Returns(m, low, NextPlace(c), f[NextPlace(c)])
      BY <2>2, <3>4
    <3> QED
      BY <3>1, <3>2, <3>3, <3>5 DEF Returns
  <2>6. CASE ~ Stops(m, c.j, c.i) /\ Meets(m, c.j, c.i) /\ c.memo[cell] # Unscored
    <3> DEFINE res == From(m, f, c)
    <3>1. res = [value |-> Greater(c.memo[cell], c.seen), memo |-> c.memo]
      BY <1>1, <1>5, <1>7, <2>6 DEF From
    <3>2. res.value = Greater(c.memo[cell], c.seen) /\ res.memo = c.memo
      BY <3>1
    <3>3. c.memo[cell] \in low .. Most(m)
      BY <2>2, <2>6 DEF Sound, CellsOK
    <3>4. res.value \in low .. Most(m)
      BY <1>1, <1>3, <3>2, <3>3 DEF Greater
    <3>5. Settled(m, c.j, c.i, c.memo)
      BY <2>1, <2>6, SettledIs
    <3> HIDE DEF res
    <3> QED
      BY <3>2, <3>4, <3>5 DEF Returns, res, Sound
  <2>7. CASE ~ Stops(m, c.j, c.i) /\ Meets(m, c.j, c.i) /\ c.memo[cell] = Unscored
    <3> DEFINE skipped == IF c.j < m.r[c.i] THEN f[Skipping(c)]
                          ELSE [value |-> 0, memo |-> c.memo]
               best == Greater(c.seen, skipped.value)
               taken == c.score + CharScore(m, c.j, c.last)
               cellValue == Greater(best, taken)
               left == [skipped.memo EXCEPT ![cell] = cellValue]
               go == Taking(c, taken, best, left)
               res == From(m, f, c)
    <3>1. c.j \in Nat /\ m.r[c.i] \in Nat
      BY <1>1, <1>2
    <3>2. ~ Settled(m, c.j, c.i, c.memo)
      BY <2>1, <2>7, <3>1, SettledIs
    <3>3. c.score <= (c.i - 1) * P
      BY <3>2 DEF Sound
    <3>4. taken \in low .. c.i * P
      <4>1. /\ CharScore(m, c.j, c.last) \in 0 .. P
            /\ low = 1 => CharScore(m, c.j, c.last) >= 1
        <5>1. m.h \in Seq(STRING) /\ m.n \in Seq(STRING) /\ m.n # <<>>
          BY DEF Ready
        <5>2. low = 1 => Scale >= 5 * N * H
          <6>1. low = 1 => low # 0
            OBVIOUS
          <6> QED
            BY <6>1, Zenon DEF Floor
        <5> QED
          BY <1>1, <2>1, <5>1, <5>2, CharScoreIs
      <4>2. c.i * P \in Nat /\ (c.i - 1) * P \in Nat /\ (c.i - 1) * P + P = c.i * P
        BY <1>1, <1>4
      <4> DEFINE worth == CharScore(m, c.j, c.last)
      <4> HIDE DEF P, worth
      <4>3. worth \in Nat /\ worth <= P /\ worth >= low
        BY <1>3, <4>1 DEF worth
      <4>4. c.score + worth >= low /\ c.score + worth \in Nat
        BY <1>1, <4>3
      <4>5. c.score + worth <= c.i * P
        BY <1>1, <1>3, <3>3, <4>2, <4>3
      <4> QED
        BY <4>2, <4>4, <4>5 DEF worth
    \* Without the match at c.j: the search from the next place.
    <3>5. /\ skipped.value \in 0 .. Most(m) /\ skipped.memo \in Memo(m)
          /\ CellsOK(m, low, skipped.memo)
          /\ \A x \in Cells : c.memo[x] # Unscored => skipped.memo[x] # Unscored
          /\ c.j < m.r[c.i] => Settled(m, c.j + 1, c.i, skipped.memo)
      <4>1. CASE c.j < m.r[c.i]
        <5>1. /\ Skipping(c).i = c.i /\ Skipping(c).j = c.j + 1 /\ Skipping(c).score = c.score
              /\ Skipping(c).seen = 0 /\ Skipping(c).memo = c.memo
          BY <1>1 DEF Skipping, Place
        <5>2. Sound(m, low, Skipping(c))
          BY <1>1, <1>3, <2>1, <2>2, <3>3, <4>1, <5>1 DEF Sound
        <5>3. Returns(m, low, Skipping(c), f[Skipping(c)])
          BY <2>2, <5>2
        <5>4. skipped = f[Skipping(c)]
          BY <4>1
        <5>5. skipped.value \in low .. Most(m) /\ skipped.memo \in Memo(m)
          BY <5>3, <5>4 DEF Returns, Result
        <5>6. skipped.value \in 0 .. Most(m)
          BY <1>3, <5>5
        <5> HIDE DEF skipped
        <5> QED
          BY <5>1, <5>3, <5>4, <5>5, <5>6 DEF Returns
      <4>2. CASE ~ (c.j < m.r[c.i])
        <5>1. skipped.value = 0 /\ skipped.memo = c.memo
          BY <4>2
        <5> HIDE DEF skipped
        <5> QED
          BY <1>1, <1>3, <4>2, <5>1 DEF Sound
      <4> QED
        BY <4>1, <4>2
    <3>6. best \in 0 .. Most(m)
      <4> HIDE DEF skipped
      <4> QED
        BY <1>1, <3>5 DEF Greater
    <3>7. taken \in Int /\ taken <= Most(m) /\ taken >= low /\ taken >= 0
      <4>1. c.i * P \in Nat /\ c.i * P <= N * P
        BY <1>1, <1>4
      <4> HIDE DEF P, taken
      <4> QED
        BY <1>3, <3>4, <4>1
    <3>8. cellValue \in low .. Most(m)
      <4> HIDE DEF best, taken
      <4> QED
        BY <1>3, <3>6, <3>7 DEF Greater
    <3>9. cellValue \in Int /\ cellValue # Unscored
      <4> HIDE DEF cellValue
      <4> QED
        BY <1>3, <3>8 DEF Unscored
    <3> HIDE DEF skipped, best, taken, cellValue
    <3>10. left \in Memo(m) /\ left[cell] = cellValue
           /\ \A x \in Cells : x # cell => left[x] = skipped.memo[x]
      BY <2>2, <3>5, <3>9 DEF Memo
    <3> HIDE DEF left, cell
    <3>11. CellsOK(m, low, left)
      BY <3>5, <3>8, <3>10 DEF CellsOK
    <3>12. \A x \in Cells : /\ skipped.memo[x] # Unscored => left[x] # Unscored
                            /\ c.memo[x] # Unscored => left[x] # Unscored
      BY <3>5, <3>9, <3>10
    <3>13. Settled(m, c.j, c.i, left)
      BY <2>7, <3>1, <3>9, <3>10, SettledIs DEF cell
    <3>14. CASE c.i = N
      <4>1. res = [value |-> cellValue, memo |-> left]
        BY <1>1, <1>5, <1>7, <2>7, <3>14 DEF From, skipped, best, taken, cellValue, left, cell
      <4>2. res.value = cellValue /\ res.memo = left
        BY <4>1
      <4> HIDE DEF res
      <4> QED
        BY <3>8, <3>11, <3>12, <3>13, <4>2 DEF Returns, res
    <3>15. CASE c.i # N
      <4>1. res = f[go]
        BY <1>1, <1>5, <1>7, <2>7, <3>15 DEF From, skipped, best, taken, cellValue, left, cell
      <4>2. go \in Place(m) /\ Rank(m, go) < Rank(m, c)
        BY <1>3, <2>2, <3>6, <3>7, <3>10
      <4>3. /\ go.i = c.i /\ go.j = c.j + 1 /\ go.from = c.j + 1 /\ go.score = taken
            /\ go.seen = best /\ go.memo = left
        BY <1>1 DEF Taking, Place
      <4>4. Settled(m, c.j + 1, c.i, left)
        <5>1. CASE c.j < m.r[c.i]
          <6>1. Settled(m, c.j + 1, c.i, skipped.memo)
            BY <3>5, <5>1
          <6>2. \A k \in (c.j + 1) .. m.r[c.i] : <<k, c.i>> \in Cells
            <7>1. m.r[c.i] <= m.r[N] /\ m.r[N] \in 1 .. H
              <8>1. N \in 1 .. N
                BY <1>1
              <8> QED
                BY <1>1, <1>2, <8>1
            <7>2. \A k \in (c.j + 1) .. m.r[c.i] : k \in 1 .. m.r[N]
              BY <2>1, <7>1
            <7> QED
              BY <1>1, <7>2
          <6> QED
            BY <3>12, <6>1, <6>2 DEF Settled
        <5>2. CASE ~ (c.j < m.r[c.i])
          <6>1. c.j + 1 \in Nat /\ c.j + 1 > m.r[c.i]
            BY <3>1, <5>2
          <6> QED
            BY <3>1, <6>1, SettledIs
        <5> QED
          BY <5>1, <5>2
      <4>5. Sound(m, low, go)
        <5>1. c.i < N /\ (c.j + 1 <= m.r[c.i] \/ c.j + 1 = m.r[c.i] + 1)
          BY <1>1, <1>2, <2>1, <3>15
        <5>2. taken <= c.i * P
          BY <3>4, <1>4, <1>1
        <5> HIDE DEF go
        <5> QED
          BY <1>1, <3>6, <3>7, <3>11, <4>2, <4>3, <4>4, <5>1, <5>2 DEF Sound
      <4>6. Returns(m, low, go, res)
        BY <4>1, <4>2, <4>5
      <4>7. \A x \in Cells : left[x] # Unscored => res.memo[x] # Unscored
        <5> HIDE DEF go, res
        <5> QED
          BY <4>3, <4>6 DEF Returns
      <4>8. Settled(m, c.j, c.i, res.memo)
        <5>1. res.memo[<<c.j, c.i>>] # Unscored
          <6> HIDE DEF res
          <6> QED
            BY <2>2, <3>9, <3>10, <4>7 DEF cell
        <5> HIDE DEF res
        <5> QED
          BY <2>7, <3>1, <5>1, SettledIs
      <4>9. /\ res \in Result(m) /\ res.value \in low .. Most(m) /\ CellsOK(m, low, res.memo)
        <5> HIDE DEF go, res
        <5> QED
          BY <4>6 DEF Returns
      <4>10. \A x \in Cells : c.memo[x] # Unscored => res.memo[x] # Unscored
        <5> HIDE DEF res
        <5> QED
          BY <3>12, <4>7
      <4> HIDE DEF res
      <4>11. Returns(m, low, c, res)
        BY <4>8, <4>9, <4>10 DEF Returns
      <4> QED
        BY <4>11 DEF res
    <3> QED
      BY <3>14, <3>15
  <2> QED
    BY <2>4, <2>5, <2>6, <2>7
<1> QED
  BY <1>6, <1>7

\* The search of a needle returns between 0, or 1, and the bound.
LEMMA MatchReturns ==
  ASSUME NEW m, Ready(m), NEW low \in {0, 1}, Floor(m, low)
  PROVE  Match(m) \in low .. Most(m)
<1> DEFINE F == CHOOSE f : f = [c \in Place(m) |-> From(m, f, c)]
           S == { k \in Nat : \A c \in Place(m) :
                    Rank(m, c) < k /\ Sound(m, low, c) => Returns(m, low, c, F[c]) }
           start == [i |-> 1, j |-> 1, from |-> 1, last |-> 1, score |-> 0, seen |-> 0,
                     memo |-> [cell \in (1 .. m.r[Len(m.n)]) \X (1 .. Len(m.n)) |-> Unscored]]
<1>1. Match(m) = F[start].value
  BY DEF Match
<1>2. F \in [Place(m) -> Result(m)] /\ \A c \in Place(m) : F[c] = From(m, F, c)
  BY SearchIs
<1> HIDE DEF F
<1>3. \A c \in Place(m) : Rank(m, c) \in Nat
  BY PlaceIs
<1>4. S = Nat
  <2>1. 0 \in S
    BY <1>3
  <2>2. ASSUME NEW k \in S PROVE k + 1 \in S
    <3>1. ASSUME NEW c \in Place(m), Rank(m, c) < k + 1, Sound(m, low, c)
          PROVE  Returns(m, low, c, F[c])
      <4>1. \A d \in Place(m) : Rank(m, d) < Rank(m, c) /\ Sound(m, low, d)
                                => Returns(m, low, d, F[d])
        BY <1>3, <3>1
      <4>2. F[c] = From(m, F, c) /\ From(m, F, c) \in Result(m)
            /\ \A d \in Place(m) : F[d] \in Result(m)
        BY <1>2
      <4>3. Returns(m, low, c, From(m, F, c))
        BY <3>1, <4>1, <4>2, FromReturns
      <4> QED
        BY <4>2, <4>3
    <3> QED
      BY <3>1
  <2>3. S \in SUBSET Nat
    OBVIOUS
  <2> HIDE DEF S
  <2> QED
    BY <2>1, <2>2, <2>3, Induct
<1>5. start \in Place(m)
  <2>1. /\ 1 \in 1 .. Len(m.n) + 1 /\ 1 \in 1 .. Len(m.h) + 1 /\ 1 \in 1 .. Len(m.h)
    BY ReadyIs
  <2>2. Unscored \in Int
    BY DEF Unscored
  <2>3. start.memo \in Memo(m)
    BY <2>2 DEF Memo
  <2> QED
    BY <2>1, <2>3 DEF Place
<1>6. Sound(m, low, start)
  <2>1. start.i <= Len(m.n) /\ start.j <= m.r[start.i]
    BY ReadyIs
  <2>2. PerChar(m.h, m.n) \in Nat /\ Most(m) \in Nat
    <3>1. Len(m.n) \in Nat /\ PerChar(m.h, m.n) \in Nat
      BY ReadyIs, PerCharIs DEF Ready
    <3> QED
      BY <3>1 DEF Most
  <2>3. start.score >= 0 /\ start.score <= (start.i - 1) * PerChar(m.h, m.n)
    BY <2>2
  <2>4. start.seen \in 0 .. Most(m)
    BY <2>2
  <2>5. CellsOK(m, low, start.memo)
    BY DEF CellsOK
  <2> HIDE DEF start
  <2> QED
    BY <1>5, <2>1, <2>3, <2>4, <2>5 DEF Sound
<1>7. Returns(m, low, start, F[start])
  <2> HIDE DEF start
  <2>1. Rank(m, start) + 1 \in S
    <3> HIDE DEF S
    <3> QED
      BY <1>3, <1>4, <1>5
  <2>2. Rank(m, start) < Rank(m, start) + 1
    BY <1>3, <1>5
  <2> QED
    BY <1>5, <1>6, <2>1, <2>2
<1> QED
  BY <1>1, <1>7 DEF Returns

\* What a candidate scores for a needle: at most 1 and at most the bound, 0 without a match,
\* and more than 0 for a match where dot-files are always shown.
LEMMA MatchScoreIs ==
  ASSUME NEW h \in Seq(STRING), NEW n \in Seq(STRING), n # <<>>, NEW ignoreCase, NEW dots,
         NEW s, s = MatchScore(h, n, ignoreCase, dots)
  PROVE  /\ s \in 0 .. Scale
         /\ s <= UpperBound(h, n)
         /\ s # 0 => Matches(h, n, ignoreCase)
         /\ dots = "always" /\ Scale >= 5 * Len(n) * Len(h) /\ Matches(h, n, ignoreCase)
              => s > 0
<1> DEFINE r == Rightmost(h, n, ignoreCase)
           m == [h |-> h, n |-> n, r |-> r, ignoreCase |-> ignoreCase, dots |-> dots]
           fine == dots = "always" /\ Scale >= 5 * Len(n) * Len(h)
<1>1. s = IF r[1] = 0 THEN 0 ELSE Match(m)
  BY DEF MatchScore
<1>2. Matches(h, n, ignoreCase) <=> r[1] # 0
  BY FoundWhenMatches
<1>3. Scale \in Nat \ {0} /\ Len(n) \in Nat \ {0} /\ Len(h) \in Nat
  BY ScaleAssumption
<1>4. h # <<>> => UpperBound(h, n) = Len(n) * PerChar(h, n) /\ PerChar(h, n) \in Nat
  BY PerCharIs DEF UpperBound
<1>5. h = <<>> => UpperBound(h, n) = Scale * 2
  BY DEF UpperBound
<1>6. UpperBound(h, n) \in Nat
  <2>1. h # <<>> => UpperBound(h, n) \in Nat
    BY <1>3, <1>4
  <2>2. h = <<>> => UpperBound(h, n) \in Nat
    BY <1>3, <1>5
  <2> QED
    BY <2>1, <2>2
<1>7. CASE r[1] = 0
  BY <1>1, <1>2, <1>3, <1>6, <1>7
<1>8. CASE r[1] # 0
  <2>1. m.h = h /\ m.n = n /\ m.r = r /\ m.dots = dots /\ m.ignoreCase = ignoreCase
    OBVIOUS
  <2> HIDE DEF m
  <2>2. Ready(m)
    BY <1>8, <2>1 DEF Ready
  <2>3. s = Match(m)
    BY <1>1, <1>8
  <2>4. /\ Len(n) <= Len(h) /\ h # <<>>
    BY <2>1, <2>2, ReadyIs
  <2>5. Most(m) = UpperBound(h, n) /\ Most(m) <= Scale
    BY <1>4, <2>1, <2>4, PerCharIs DEF Most
  <2>6. s \in 0 .. Most(m)
    <3>1. 0 \in {0, 1} /\ Floor(m, 0)
      BY DEF Floor
    <3> QED
      BY <2>2, <2>3, <3>1, MatchReturns
  <2>7. fine => s \in 1 .. Most(m)
    <3>1. fine => 1 \in {0, 1} /\ Floor(m, 1)
      BY <2>1 DEF Floor
    <3> QED
      BY <2>2, <2>3, <3>1, MatchReturns
  <2> QED
    BY <1>2, <1>3, <1>6, <1>8, <2>5, <2>6, <2>7
<1> QED
  BY <1>7, <1>8

-----------------------------------------------------------------------------
(***************************************************************************)
(* The bitmasks.                                                            *)
(***************************************************************************)

\* A small letter is no capital, so making a character small twice is making it small once.
LEMMA LowerTwice ==
  ASSUME NEW c, NEW ignoreCase
  PROVE  LowerOf(Fold(c, ignoreCase)) = LowerOf(c)
BY LetterAssumption DEF Fold, LowerOf

\* A needle that is in the candidate has no letter the candidate's mask lacks, whatever bits
\* the other characters set.
LEMMA MaskHolds ==
  ASSUME NEW h, NEW n, NEW ignoreCase, NEW junk, Matches(h, n, ignoreCase)
  PROVE  NeedleMask(n) \subseteq HaystackMask(h, junk)
<1>1. PICK f \in [DOMAIN n -> DOMAIN h] :
        \A i \in DOMAIN n : Fold(h[f[i]], ignoreCase) = n[i]
  BY DEF Matches
<1>2. \A i \in DOMAIN n : f[i] \in DOMAIN h /\ LowerOf(n[i]) = LowerOf(h[f[i]])
  BY <1>1, LowerTwice
<1> QED
  BY <1>2 DEF NeedleMask, HaystackMask

\* A mask the candidate may be left with.
MaskOf(h, mask) == mask = UnsetMask \/ \E junk \in Junk : mask = HaystackMask(h, junk)

\* With such a mask a candidate scores what it scores without one.
LEMMA MaskInvisible ==
  ASSUME NEW h \in Seq(STRING), NEW n \in Seq(STRING), NEW ignoreCase, NEW dots, NEW mask,
         MaskOf(h, mask)
  PROVE  ScoreWith(h, n, ignoreCase, dots, mask) = ScoreWith(h, n, ignoreCase, dots, UnsetMask)
<1>1. CASE n = <<>>
  BY <1>1 DEF ScoreWith
<1>2. CASE n # <<>> /\ mask = UnsetMask
  BY <1>2
<1>3. CASE n # <<>> /\ mask # UnsetMask
  <2>1. ScoreWith(h, n, ignoreCase, dots, UnsetMask) = MatchScore(h, n, ignoreCase, dots)
    BY <1>3 DEF ScoreWith
  <2>2. CASE NeedleMask(n) \subseteq mask
    BY <1>3, <2>1, <2>2 DEF ScoreWith
  <2>3. CASE ~ (NeedleMask(n) \subseteq mask)
    <3>1. ~ Matches(h, n, ignoreCase)
      BY <1>3, <2>3, MaskHolds DEF MaskOf
    <3>2. MatchScore(h, n, ignoreCase, dots) = 0
      BY <1>3, <3>1, MatchScoreIs
    <3> QED
      BY <1>3, <2>1, <2>3, <3>2 DEF ScoreWith
  <2> QED
    BY <2>2, <2>3
<1> QED
  BY <1>1, <1>2, <1>3

-----------------------------------------------------------------------------
(***************************************************************************)
(* The needle.                                                              *)
(***************************************************************************)

\* The recursive definition in Spaceless has a solution.
LEMMA KeptIs ==
  ASSUME NEW s \in Seq(STRING)
  PROVE  \E f : f = [i \in 0 .. Len(s) |->
                      IF i = 0 THEN <<>>
                      ELSE IF s[i] = " " THEN f[i - 1] ELSE Append(f[i - 1], s[i])]
<1> DEFINE Body(f, i) == IF i = 0 THEN <<>>
                         ELSE IF s[i] = " " THEN f[i - 1] ELSE Append(f[i - 1], s[i])
           Solves(f, k) == \A i \in 0 .. Len(s) : i < k => f[i] = Body(f, i)
           Table(f) == f = [i \in 0 .. Len(s) |-> f[i]]
           S == { k \in Nat : \E f : Table(f) /\ Solves(f, k) }
<1>1. Len(s) \in Nat
  OBVIOUS
<1>2. 0 \in S
  <2> DEFINE e == [i \in 0 .. Len(s) |-> <<>>]
  <2>1. Table(e)
    OBVIOUS
  <2>2. Solves(e, 0)
    <3>1. \A i \in 0 .. Len(s) : ~ (i < 0)
      BY <1>1
    <3> QED
      BY <3>1
  <2> HIDE DEF e, Table, Solves
  <2> QED
    BY <2>1, <2>2
<1>3. ASSUME NEW k \in S PROVE k + 1 \in S
  <2>1. k \in Nat
    OBVIOUS
  <2>2. PICK f : Table(f) /\ Solves(f, k)
    OBVIOUS
  <2> DEFINE g == [i \in 0 .. Len(s) |-> Body(f, i)]
  <2>3. Table(g)
    OBVIOUS
  <2>4. \A i \in 0 .. Len(s) : i < k => g[i] = f[i]
    BY <2>2
  <2>5. ASSUME NEW i \in 0 .. Len(s), i < k + 1 PROVE g[i] = Body(g, i)
    <3>1. g[i] = Body(f, i)
      OBVIOUS
    <3>2. i # 0 => g[i - 1] = f[i - 1]
      <4>1. i # 0 => i - 1 \in 0 .. Len(s) /\ i - 1 < k
        <5> HIDE DEF S
        <5> QED
          BY <1>1, <2>1, <2>5
      <4> HIDE DEF g
      <4> QED
        BY <2>4, <4>1
    <3> HIDE DEF g
    <3> QED
      BY <3>1, <3>2
  <2>6. \E q : Table(q) /\ Solves(q, k + 1)
    <3> HIDE DEF g, Table
    <3> QED
      BY <2>3, <2>5
  <2>7. k + 1 \in Nat
    <3> HIDE DEF S
    <3> QED
      BY <2>1
  <2> HIDE DEF Table, Solves
  <2> QED
    BY <2>6, <2>7
<1>4. S = Nat
  <2>1. S \in SUBSET Nat
    OBVIOUS
  <2> HIDE DEF S
  <2> QED
    BY <1>2, <1>3, <2>1, Induct
<1>5. PICK f : Table(f) /\ Solves(f, Len(s) + 1)
  <2>1. Len(s) + 1 \in S
    <3> HIDE DEF S
    <3> QED
      BY <1>1, <1>4
  <2> QED
    BY <2>1
<1>6. \A i \in 0 .. Len(s) : f[i] = Body(f, i)
  <2>1. \A i \in 0 .. Len(s) : i < Len(s) + 1
    BY <1>1
  <2> QED
    BY <1>5, <2>1
<1>7. f = [i \in 0 .. Len(s) |-> Body(f, i)]
  BY <1>5, <1>6
<1> QED
  BY <1>7

\* A text without its spaces has no more characters, and only the text's own.
LEMMA SpacelessIs ==
  ASSUME NEW s \in Seq(STRING)
  PROVE  /\ Spaceless(s) \in Seq(STRING) /\ Len(Spaceless(s)) <= Len(s)
         /\ \A i \in 1 .. Len(Spaceless(s)) : \E k \in 1 .. Len(s) : Spaceless(s)[i] = s[k]
<1> DEFINE kept == CHOOSE f : f = [i \in 0 .. Len(s) |->
                     IF i = 0 THEN <<>>
                     ELSE IF s[i] = " " THEN f[i - 1] ELSE Append(f[i - 1], s[i])]
           Fine(q, k) == /\ q \in Seq(STRING) /\ Len(q) <= k
                         /\ \A i \in 1 .. Len(q) : \E l \in 1 .. Len(s) : q[i] = s[l]
           S == { k \in Nat : k <= Len(s) => Fine(kept[k], k) }
<1>1. Spaceless(s) = kept[Len(s)]
  BY DEF Spaceless
<1>2. kept = [i \in 0 .. Len(s) |->
                IF i = 0 THEN <<>>
                ELSE IF s[i] = " " THEN kept[i - 1] ELSE Append(kept[i - 1], s[i])]
  BY KeptIs
<1> HIDE DEF kept
<1>3. /\ kept[0] = <<>>
      /\ \A i \in 1 .. Len(s) :
           kept[i] = IF s[i] = " " THEN kept[i - 1] ELSE Append(kept[i - 1], s[i])
  <2>1. 0 \in 0 .. Len(s) /\ \A i \in 1 .. Len(s) : i \in 0 .. Len(s) /\ i # 0
    OBVIOUS
  <2> QED
    BY <1>2, <2>1
<1>4. 0 \in S
  <2>1. Fine(<<>>, 0)
    OBVIOUS
  <2> QED
    BY <1>3, <2>1
<1>5. ASSUME NEW k \in S PROVE k + 1 \in S
  <2> SUFFICES ASSUME k + 1 <= Len(s) PROVE Fine(kept[k + 1], k + 1)
    OBVIOUS
  <2>1. Fine(kept[k], k) /\ k + 1 \in 1 .. Len(s) /\ (k + 1) - 1 = k /\ s[k + 1] \in STRING
    OBVIOUS
  <2>2. kept[k + 1] = IF s[k + 1] = " " THEN kept[k] ELSE Append(kept[k], s[k + 1])
    BY <1>3, <2>1
  <2>3. CASE s[k + 1] = " "
    <3>1. kept[k + 1] = kept[k]
      BY <2>2, <2>3
    <3> QED
      BY <2>1, <3>1
  <2>4. CASE s[k + 1] # " "
    <3>1. PICK q : q = kept[k]
      OBVIOUS
    <3>2. Fine(q, k) /\ kept[k + 1] = Append(q, s[k + 1])
      BY <2>1, <2>2, <2>4, <3>1
    <3>3. Len(Append(q, s[k + 1])) = Len(q) + 1 /\ Append(q, s[k + 1]) \in Seq(STRING)
      BY <2>1, <3>2
    <3>4. \A i \in 1 .. Len(q) + 1 :
            Append(q, s[k + 1])[i] = IF i = Len(q) + 1 THEN s[k + 1] ELSE q[i]
      BY <2>1, <3>2
    <3>5. \A i \in 1 .. Len(q) + 1 : i = Len(q) + 1 \/ i \in 1 .. Len(q)
      BY <3>2
    <3> QED
      BY <2>1, <3>2, <3>3, <3>4, <3>5
  <2> QED
    BY <2>3, <2>4
<1>6. S = Nat
  <2>1. S \in SUBSET Nat
    OBVIOUS
  <2> HIDE DEF S
  <2> QED
    BY <1>4, <1>5, <2>1, Induct
<1>7. Fine(kept[Len(s)], Len(s))
  <2>1. Len(s) \in S
    <3> HIDE DEF S
    <3> QED
      BY <1>6
  <2> QED
    BY <2>1
<1> QED
  BY <1>1, <1>7

\* Spaces are dropped one character at a time.
LEMMA SpacelessOfMore ==
  ASSUME NEW s \in Seq(STRING), NEW c \in STRING
  PROVE  Spaceless(Append(s, c)) = IF c = " " THEN Spaceless(s) ELSE Append(Spaceless(s), c)
<1> DEFINE t == Append(s, c)
           kept == CHOOSE f : f = [i \in 0 .. Len(s) |->
                     IF i = 0 THEN <<>>
                     ELSE IF s[i] = " " THEN f[i - 1] ELSE Append(f[i - 1], s[i])]
           keptT == CHOOSE f : f = [i \in 0 .. Len(t) |->
                      IF i = 0 THEN <<>>
                      ELSE IF t[i] = " " THEN f[i - 1] ELSE Append(f[i - 1], t[i])]
           S == { k \in Nat : k <= Len(s) => keptT[k] = kept[k] }
<1>1. Spaceless(s) = kept[Len(s)] /\ Spaceless(t) = keptT[Len(t)]
  BY DEF Spaceless
<1> HIDE DEF kept, keptT
<1>2. t \in Seq(STRING) /\ Len(t) = Len(s) + 1 /\ t[Len(s) + 1] = c
      /\ \A i \in 1 .. Len(s) : t[i] = s[i]
  <2>1. t \in Seq(STRING)
    BY AppendProperties
  <2>2. Len(t) = Len(s) + 1
    BY AppendProperties
  <2>3. t[Len(s) + 1] = c
    BY AppendProperties
  <2>4. \A i \in 1 .. Len(s) : t[i] = s[i]
    BY AppendProperties
  <2> QED
    BY <2>1, <2>2, <2>3, <2>4
<1> HIDE DEF t
<1>3. /\ kept[0] = <<>>
      /\ \A i \in 1 .. Len(s) :
           kept[i] = IF s[i] = " " THEN kept[i - 1] ELSE Append(kept[i - 1], s[i])
  <2>1. kept = [i \in 0 .. Len(s) |->
                  IF i = 0 THEN <<>>
                  ELSE IF s[i] = " " THEN kept[i - 1] ELSE Append(kept[i - 1], s[i])]
    BY KeptIs DEF kept
  <2>2. 0 \in 0 .. Len(s) /\ \A i \in 1 .. Len(s) : i \in 0 .. Len(s) /\ i # 0
    OBVIOUS
  <2> QED
    BY <2>1, <2>2
<1>4. /\ keptT[0] = <<>>
      /\ \A i \in 1 .. Len(t) :
           keptT[i] = IF t[i] = " " THEN keptT[i - 1] ELSE Append(keptT[i - 1], t[i])
  <2>1. keptT = [i \in 0 .. Len(t) |->
                   IF i = 0 THEN <<>>
                   ELSE IF t[i] = " " THEN keptT[i - 1] ELSE Append(keptT[i - 1], t[i])]
    BY <1>2, KeptIs DEF keptT
  <2>2. 0 \in 0 .. Len(t) /\ \A i \in 1 .. Len(t) : i \in 0 .. Len(t) /\ i # 0
    BY <1>2
  <2> QED
    BY <2>1, <2>2
<1>5. 0 \in S
  BY <1>3, <1>4
<1>6. ASSUME NEW k \in S PROVE k + 1 \in S
  <2> SUFFICES ASSUME k + 1 <= Len(s) PROVE keptT[k + 1] = kept[k + 1]
    OBVIOUS
  <2>1. keptT[k] = kept[k] /\ k + 1 \in 1 .. Len(s) /\ k + 1 \in 1 .. Len(t) /\ (k + 1) - 1 = k
    BY <1>2
  <2> QED
    BY <1>2, <1>3, <1>4, <2>1
<1>7. S = Nat
  <2>1. S \in SUBSET Nat
    OBVIOUS
  <2> HIDE DEF S
  <2> QED
    BY <1>5, <1>6, <2>1, Induct
<1>8. keptT[Len(s)] = kept[Len(s)]
  <2>1. Len(s) \in S
    <3> HIDE DEF S
    <3> QED
      BY <1>7
  <2> QED
    BY <2>1
<1>9. keptT[Len(t)] = IF c = " " THEN keptT[Len(s)] ELSE Append(keptT[Len(s)], c)
  <2>1. Len(t) \in 1 .. Len(t) /\ Len(t) - 1 = Len(s) /\ t[Len(t)] = c
    BY <1>2
  <2> QED
    BY <1>4, <2>1
<1> QED
  BY <1>1, <1>8, <1>9 DEF t

LEMMA LowerIsText ==
  ASSUME NEW c \in STRING
  PROVE  LowerOf(c) \in STRING
BY LetterAssumption DEF LowerOf

\* The query before its spaces go: in small letters, unless its case may matter.
Cased(q) == IF options.ignoreCase /\ ~ options.smartCase
            THEN [i \in DOMAIN q |-> LowerOf(q[i])] ELSE q

LEMMA CasedIs ==
  ASSUME NEW q \in Seq(STRING)
  PROVE  /\ Cased(q) \in Seq(STRING) /\ Len(Cased(q)) = Len(q)
         /\ Needle(q) = IF options.ignoreSpaces THEN Spaceless(Cased(q)) ELSE Cased(q)
<1>1. Needle(q) = IF options.ignoreSpaces THEN Spaceless(Cased(q)) ELSE Cased(q)
  BY Zenon DEF Needle, Cased
<1>2. CASE options.ignoreCase /\ ~ options.smartCase
  <2>1. Cased(q) = [i \in 1 .. Len(q) |-> LowerOf(q[i])]
    BY <1>2 DEF Cased
  <2>2. \A i \in 1 .. Len(q) : LowerOf(q[i]) \in STRING
    <3>1. \A i \in 1 .. Len(q) : q[i] \in STRING
      OBVIOUS
    <3> QED
      BY <3>1, LowerIsText
  <2>3. Cased(q) \in Seq(STRING) /\ Len(Cased(q)) = Len(q)
    BY <2>1, <2>2
  <2> QED
    BY <1>1, <2>3
<1>3. CASE ~ (options.ignoreCase /\ ~ options.smartCase)
  <2>1. Cased(q) = q
    BY <1>3 DEF Cased
  <2> QED
    BY <1>1, <2>1
<1> QED
  BY <1>2, <1>3

\* A needle is no longer than the query, and has only the query's characters where a
\* capital letter of the query counts.
LEMMA NeedleIs ==
  ASSUME NEW q \in Seq(STRING)
  PROVE  /\ Needle(q) \in Seq(STRING) /\ Len(Needle(q)) <= Len(q)
         /\ options.smartCase =>
              \A i \in 1 .. Len(Needle(q)) : \E k \in 1 .. Len(q) : Needle(q)[i] = q[k]
<1>1. /\ Cased(q) \in Seq(STRING) /\ Len(Cased(q)) = Len(q)
      /\ Needle(q) = IF options.ignoreSpaces THEN Spaceless(Cased(q)) ELSE Cased(q)
  BY CasedIs
<1>2. options.smartCase => Cased(q) = q
  BY DEF Cased
<1>3. CASE options.ignoreSpaces
  <2>1. Needle(q) = Spaceless(Cased(q))
    BY <1>1, <1>3
  <2> QED
    BY <1>1, <1>2, <2>1, SpacelessIs
<1>4. CASE ~ options.ignoreSpaces
  <2>1. Needle(q) = Cased(q)
    BY <1>1, <1>4
  <2>2. \A i \in 1 .. Len(q) : \E k \in 1 .. Len(q) : q[i] = q[k]
    OBVIOUS
  <2>3. Len(q) \in Nat
    OBVIOUS
  <2> QED
    BY <1>1, <1>2, <2>1, <2>2, <2>3
<1> QED
  BY <1>3, <1>4

\* One more character of the query adds a character to the needle or none.
LEMMA NeedleOfMore ==
  ASSUME NEW q \in Seq(STRING), NEW c \in STRING
  PROVE  \/ Needle(Append(q, c)) = Needle(q)
         \/ \E x \in STRING : Needle(Append(q, c)) = Append(Needle(q), x)
<1> DEFINE t == Append(q, c)
<1>1. t \in Seq(STRING) /\ Len(t) = Len(q) + 1
  BY AppendProperties
<1>2. t[Len(q) + 1] = c
  BY AppendProperties
<1>3. \A i \in 1 .. Len(q) : t[i] = q[i]
  BY AppendProperties
<1>4. \E x \in STRING : Cased(t) = Append(Cased(q), x)
  <2>1. CASE options.ignoreCase /\ ~ options.smartCase
    <3>1. /\ Cased(q) = [i \in 1 .. Len(q) |-> LowerOf(q[i])]
          /\ Cased(t) = [i \in 1 .. Len(q) + 1 |-> LowerOf(t[i])]
      <4> HIDE DEF t
      <4> QED
        BY <1>1, <2>1 DEF Cased
    <3>2. PICK y \in STRING : y = LowerOf(c)
      BY LowerIsText
    <3>3. PICK s \in Seq(STRING) : s = Cased(q)
      BY CasedIs
    <3>4. Len(s) = Len(q) /\ \A i \in 1 .. Len(q) : s[i] = LowerOf(q[i])
      BY <3>1, <3>3, CasedIs
    <3>5. Append(s, y) \in Seq(STRING)
      BY AppendProperties
    <3>6. Len(Append(s, y)) = Len(q) + 1
      BY <3>4, AppendProperties
    <3>7. \A i \in 1 .. Len(q) : Append(s, y)[i] = LowerOf(q[i])
      <4>1. \A i \in 1 .. Len(s) : Append(s, y)[i] = s[i]
        BY AppendProperties
      <4> QED
        BY <3>4, <4>1
    <3>8. Append(s, y)[Len(q) + 1] = LowerOf(c)
      <4>1. Append(s, y)[Len(s) + 1] = y
        BY AppendProperties
      <4> QED
        BY <3>2, <3>4, <4>1
    <3>9. PICK u \in Seq(STRING) : u = Append(s, y)
      BY <3>5
    <3>10. u = [i \in 1 .. Len(u) |-> u[i]]
      OBVIOUS
    <3>11. \A i \in 1 .. Len(q) + 1 : i \in 1 .. Len(q) \/ i = Len(q) + 1
      OBVIOUS
    <3>12. \A i \in 1 .. Len(q) + 1 : u[i] = LowerOf(t[i])
      <4> HIDE DEF t
      <4> QED
        BY <1>2, <1>3, <3>7, <3>8, <3>9, <3>11
    <3>13. Cased(t) = u
      <4> HIDE DEF t
      <4> QED
        BY <3>1, <3>6, <3>9, <3>10, <3>12
    <3> QED
      BY <3>3, <3>9, <3>13
  <2>2. CASE ~ (options.ignoreCase /\ ~ options.smartCase)
    <3>1. Cased(t) = t /\ Cased(q) = q
      BY <2>2 DEF Cased
    <3> QED
      BY <3>1
  <2> QED
    BY <2>1, <2>2
<1> HIDE DEF t
<1>5. PICK x \in STRING : Cased(t) = Append(Cased(q), x)
  BY <1>4
<1>6. /\ Needle(t) = IF options.ignoreSpaces THEN Spaceless(Cased(t)) ELSE Cased(t)
      /\ Needle(q) = IF options.ignoreSpaces THEN Spaceless(Cased(q)) ELSE Cased(q)
      /\ Cased(q) \in Seq(STRING)
  BY <1>1, CasedIs
<1>7. Spaceless(Cased(t)) = IF x = " " THEN Spaceless(Cased(q))
                            ELSE Append(Spaceless(Cased(q)), x)
  BY <1>5, <1>6, SpacelessOfMore
<1>8. Needle(t) = Needle(q) \/ Needle(t) = Append(Needle(q), x)
  BY <1>5, <1>6, <1>7
<1> QED
  BY <1>8 DEF t

\* What embeds a needle embeds the needle without its last character, and goes on embedding
\* it where case is ignored as long as the needle has no capital.
LEMMA MatchesShorter ==
  ASSUME NEW h, NEW n \in Seq(STRING), NEW x \in STRING,
         NEW more, more = n \/ more = Append(n, x),
         NEW ignoreCase \in BOOLEAN, NEW ignoreNow \in BOOLEAN, ignoreNow => ignoreCase,
         ignoreCase /\ ~ ignoreNow => \A i \in 1 .. Len(n) : n[i] \notin Upper,
         Matches(h, more, ignoreNow)
  PROVE  Matches(h, n, ignoreCase)
<1>1. PICK f \in [DOMAIN more -> DOMAIN h] :
        /\ \A i, k \in DOMAIN more : i < k => f[i] < f[k]
        /\ \A i \in DOMAIN more : Fold(h[f[i]], ignoreNow) = more[i]
  BY DEF Matches
<1>2. DOMAIN n = 1 .. Len(n)
  OBVIOUS
<1>3. \A i \in 1 .. Len(n) : i \in DOMAIN more /\ more[i] = n[i]
  <2>1. CASE more = n
    BY <1>2, <2>1
  <2>2. CASE more = Append(n, x)
    <3>1. more \in Seq(STRING) /\ Len(more) = Len(n) + 1
      BY <2>2, AppendProperties
    <3>2. \A i \in 1 .. Len(n) : more[i] = n[i]
      BY <2>2, AppendProperties
    <3>3. DOMAIN more = 1 .. Len(n) + 1 /\ Len(n) \in Nat
      BY <3>1
    <3> QED
      BY <3>2, <3>3
  <2> QED
    BY <2>1, <2>2
<1> DEFINE g == [i \in DOMAIN n |-> f[i]]
<1>4. g \in [DOMAIN n -> DOMAIN h]
  BY <1>2, <1>3
<1>5. \A i, k \in DOMAIN n : i < k => g[i] < g[k]
  BY <1>1, <1>2, <1>3
<1>6. \A i \in DOMAIN n : Fold(h[g[i]], ignoreCase) = n[i]
  <2> TAKE i \in DOMAIN n
  <2>1. Fold(h[f[i]], ignoreNow) = n[i] /\ g[i] = f[i] /\ i \in 1 .. Len(n)
    BY <1>1, <1>2, <1>3
  <2>2. CASE ignoreNow = ignoreCase
    BY <2>1, <2>2
  <2>3. CASE ignoreNow # ignoreCase
    <3>1. h[f[i]] = n[i] /\ n[i] \notin Upper
      BY <2>1, <2>3 DEF Fold
    <3> QED
      BY <2>1, <2>3, <3>1 DEF Fold, LowerOf
  <2> QED
    BY <2>2, <2>3
<1> QED
  BY <1>4, <1>5, <1>6 DEF Matches

-----------------------------------------------------------------------------
(***************************************************************************)
(* A candidate's life.                                                      *)
(***************************************************************************)

\* The invariant: the mask is none or one the candidate may have, and so the score is what
\* a first run with this query would give.
CandidateInv ==
  /\ TypeOK
  /\ MaskOf(text, bitmask)
  /\ FilterInvisible

LEMMA KeysAreText ==
  ASSUME NEW q \in Seq(Keys)
  PROVE  q \in Seq(STRING) /\ Len(q) \in Nat
<1>1. q \in [1 .. Len(q) -> Keys] /\ Len(q) \in Nat
  OBVIOUS
<1>2. q \in [1 .. Len(q) -> STRING]
  BY <1>1, TextAssumption
<1> QED
  BY <1>1, <1>2

LEMMA ShorterByOne ==
  ASSUME NEW q \in Seq(Keys), q # <<>>
  PROVE  /\ SubSeq(q, 1, Len(q) - 1) \in Seq(Keys)
         /\ Len(SubSeq(q, 1, Len(q) - 1)) = Len(q) - 1
<1>1. PICK l \in Nat \ {0} : l = Len(q)
  OBVIOUS
<1>2. \A i \in 1 .. l - 1 : q[i] \in Keys
  BY <1>1
<1>3. Len(SubSeq(q, 1, l - 1)) = IF 1 <= l - 1 THEN (l - 1) - 1 + 1 ELSE 0
  BY <1>2, SubSeqProperties
<1>4. SubSeq(q, 1, l - 1) \in Seq(Keys)
  BY <1>2, SubSeqProperties
<1> QED
  BY <1>1, <1>3, <1>4

\* What the query, the needle and the text are in every state.
LEMMA Texts ==
  ASSUME TypeOK
  PROVE  /\ text \in Seq(STRING) /\ query \in Seq(STRING) /\ Needle(query) \in Seq(STRING)
         /\ Scale >= 5 * Len(Needle(query)) * Len(text)
         /\ options \in [ignoreCase: BOOLEAN, smartCase: BOOLEAN, ignoreSpaces: BOOLEAN,
                         dots: DotModes]
<1>1. /\ text \in Candidates /\ text \in Seq(STRING) /\ query \in Seq(STRING)
      /\ Len(query) <= MaxQuery /\ options \in Options
  BY TextAssumption, KeysAreText DEF TypeOK
<1>2. /\ Needle(query) \in Seq(STRING) /\ Len(Needle(query)) <= Len(query)
  BY <1>1, NeedleIs
<1>3. Scale >= 5 * Len(Needle(query)) * Len(text)
  <2> DEFINE N == Len(Needle(query))
             H == Len(text)
  <2>1. N \in Nat /\ H \in Nat /\ Len(query) \in Nat
    BY <1>1, <1>2
  <2>2. N <= MaxQuery /\ MaxQuery \in Nat /\ Scale >= 5 * MaxQuery * H /\ Scale \in Nat
    BY <1>1, <1>2, <2>1, FineScale, OptionsAssumption, ScaleAssumption
  <2> HIDE DEF N, H
  <2>3. N * H <= MaxQuery * H /\ N * H \in Nat /\ MaxQuery * H \in Nat
    BY <2>1, <2>2
  <2>4. 5 * N * H = 5 * (N * H) /\ 5 * MaxQuery * H = 5 * (MaxQuery * H)
    BY <2>1, <2>2
  <2>5. Scale >= 5 * N * H
    BY <2>2, <2>3, <2>4
  <2> QED
    BY <2>5 DEF N, H
<1> QED
  BY <1>1, <1>2, <1>3, OptionsAssumption

\* The score of the empty needle and of any other.
LEMMA ScoreIs ==
  ASSUME NEW h \in Seq(STRING), NEW n \in Seq(STRING), NEW ignoreCase, NEW dots,
         NEW s, s = ScoreWith(h, n, ignoreCase, dots, UnsetMask)
  PROVE  /\ s \in -Scale .. Scale
         /\ n # <<>> => s = MatchScore(h, n, ignoreCase, dots)
         /\ n = <<>> => s = Scale \/ s = -Scale
         /\ n = <<>> /\ dots = "always" => s = Scale
<1>1. Scale \in Nat \ {0}
  BY ScaleAssumption
<1>2. n # <<>> => s = MatchScore(h, n, ignoreCase, dots)
  BY DEF ScoreWith
<1>3. n = <<>> => (s = Scale \/ s = -Scale) /\ (dots = "always" => s = Scale)
  BY DEF ScoreWith
<1>4. n # <<>> => s \in 0 .. Scale
  BY <1>2, MatchScoreIs
<1>5. s \in -Scale .. Scale
  <2>1. n = <<>> => s \in -Scale .. Scale
    BY <1>1, <1>3
  <2>2. n # <<>> => s \in -Scale .. Scale
    BY <1>1, <1>4
  <2> QED
    BY <2>1, <2>2
<1> QED
  BY <1>2, <1>3, <1>5

\* A candidate starts with no mask and the score of the empty query.
LEMMA CandidateStarts == Init => CandidateInv
<1> SUFFICES ASSUME Init PROVE CandidateInv
  OBVIOUS
<1>1. /\ text \in Candidates /\ options \in Options /\ query = <<>> /\ bitmask = UnsetMask
      /\ score = ScoreWith(text, <<>>, TRUE, options.dots, UnsetMask)
  BY DEF Init
<1>2. text \in Seq(STRING) /\ <<>> \in Seq(STRING) /\ <<>> \in Seq(Keys) /\ Len(<<>>) = 0
  BY <1>1, TextAssumption
<1>3. Needle(query) = <<>>
  <2>1. Needle(query) \in Seq(STRING) /\ Len(Needle(query)) <= 0
    BY <1>1, <1>2, NeedleIs
  <2> QED
    BY <2>1
<1>4. FilterInvisible
  BY <1>1, <1>3 DEF FilterInvisible, ScoreWith
<1>5. score \in -Scale .. Scale
  BY <1>1, <1>2, ScoreIs
<1>6. TypeOK
  <2>1. query \in Seq(Keys) /\ Len(query) <= MaxQuery
    BY <1>1, <1>2, OptionsAssumption
  <2> QED
    BY <1>1, <1>5, <2>1 DEF TypeOK
<1> QED
  BY <1>1, <1>4, <1>6 DEF CandidateInv, MaskOf

\* A run keeps the invariant, whatever the query.
LEMMA RunKeeps ==
  ASSUME CandidateInv, NEW q \in Seq(Keys), Len(q) <= MaxQuery, Run(q)
  PROVE  CandidateInv'
<1>1. /\ text \in Candidates /\ options \in Options /\ text \in Seq(STRING)
      /\ q \in Seq(STRING)
      /\ bitmask = UnsetMask \/ bitmask \subseteq Letters
      /\ MaskOf(text, bitmask)
  BY TextAssumption, KeysAreText DEF CandidateInv, TypeOK
<1>2. /\ query' = q /\ text' = text /\ options' = options
      /\ score' = ScoreWith(text, Needle(q), IgnoreCase(q), options.dots, bitmask)
      /\ bitmask' \in NextMasks(Needle(q))
  BY DEF Run
<1>3. Needle(q) \in Seq(STRING)
  <2>1. q \in Seq(STRING)
    BY <1>1
  <2> QED
    BY <2>1, NeedleIs
<1>4. Needle(query)' = Needle(q) /\ IgnoreCase(query)' = IgnoreCase(q)
  BY <1>2 DEF Needle, IgnoreCase, HasUpper
<1>5. score' = ScoreWith(text, Needle(q), IgnoreCase(q), options.dots, UnsetMask)
  BY <1>1, <1>2, <1>3, MaskInvisible
<1>6. FilterInvisible'
  BY <1>2, <1>4, <1>5 DEF FilterInvisible
<1>7. \A junk \in Junk : HaystackMask(text, junk) \subseteq Letters
  BY DEF HaystackMask, Junk
<1>8. /\ MaskOf(text, bitmask')
      /\ bitmask' = UnsetMask \/ bitmask' \subseteq Letters
  BY <1>1, <1>2, <1>7 DEF NextMasks, MaskOf
<1>9. score' \in -Scale .. Scale
  BY <1>1, <1>3, <1>5, ScoreIs
<1>10. TypeOK'
  BY <1>1, <1>2, <1>8, <1>9 DEF TypeOK
<1> QED
  <2>1. MaskOf(text, bitmask)'
    BY <1>2, <1>8 DEF MaskOf, Junk
  <2> QED
    BY <1>6, <1>10, <2>1 DEF CandidateInv

LEMMA CandidateKeeps == CandidateInv /\ [Next]_vars => CandidateInv'
<1> SUFFICES ASSUME CandidateInv, [Next]_vars PROVE CandidateInv'
  OBVIOUS
<1>1. query \in Seq(Keys) /\ Len(query) <= MaxQuery /\ MaxQuery \in Nat
  BY OptionsAssumption DEF CandidateInv, TypeOK
<1>2. \A q \in Seq(Keys) : Len(q) <= MaxQuery /\ Run(q) => CandidateInv'
  BY RunKeeps
<1>3. CASE Delete
  <2>1. PICK q : q = SubSeq(query, 1, Len(query) - 1)
    OBVIOUS
  <2>2. query # <<>> /\ Run(q)
    BY <1>3, <2>1 DEF Delete
  <2>3. Len(query) \in Nat
    BY <1>1
  <2>4. q \in Seq(Keys) /\ Len(q) = Len(query) - 1
    BY <1>1, <2>1, <2>2, ShorterByOne
  <2>5. Len(q) <= MaxQuery
    BY <1>1, <2>3, <2>4
  <2> QED
    BY <1>2, <2>2, <2>4, <2>5
<1>4. CASE Clear
  <2>1. PICK q : q = <<>>
    OBVIOUS
  <2>2. q \in Seq(Keys) /\ Len(q) = 0
    BY <2>1
  <2>3. Run(q)
    BY <1>4, <2>1 DEF Clear
  <2>4. Len(q) <= MaxQuery
    BY <1>1, <2>2
  <2> QED
    BY <1>2, <2>2, <2>3, <2>4
<1>5. ASSUME NEW c \in Keys, Type(c) PROVE CandidateInv'
  <2>1. PICK q : q = Append(query, c)
    OBVIOUS
  <2>2. q \in Seq(Keys)
    BY <1>1, <2>1, AppendProperties
  <2>3. Len(q) = Len(query) + 1
    BY <1>1, <2>1, AppendProperties
  <2>4. Len(query) < MaxQuery /\ Run(q) /\ Len(query) \in Nat
    BY <1>1, <1>5, <2>1 DEF Type
  <2> QED
    BY <1>1, <1>2, <2>2, <2>3, <2>4
<1>6. CASE UNCHANGED vars
  <2>1. /\ text' = text /\ options' = options /\ query' = query /\ bitmask' = bitmask
        /\ score' = score
    BY <1>6 DEF vars
  <2>2. Needle(query)' = Needle(query) /\ IgnoreCase(query)' = IgnoreCase(query)
    BY <2>1 DEF Needle, IgnoreCase, HasUpper
  <2>3. TypeOK'
    BY <2>1 DEF CandidateInv, TypeOK
  <2>4. FilterInvisible'
    BY <2>1, <2>2 DEF CandidateInv, FilterInvisible
  <2> QED
    BY <2>1, <2>3, <2>4 DEF CandidateInv, MaskOf, Junk
<1> QED
  BY <1>3, <1>4, <1>5, <1>6 DEF Next

LEMMA CandidateInvariant == Spec => []CandidateInv
<1>1. CandidateInv /\ [Next]_vars => CandidateInv'
  BY CandidateKeeps
<1> QED
  BY <1>1, CandidateStarts, PTL DEF Spec

\* Type correctness: in every reachable state the query is within its bound, the mask is
\* none or one of letters, and no score is more than 1 or less than -1 (score.c:119-247).
THEOREM CandidateTypeOK == Spec => []TypeOK
<1>1. CandidateInv => TypeOK
  BY DEF CandidateInv
<1> QED
  BY <1>1, CandidateInvariant, PTL

\* The bitmask filter is invisible (score.c:145-150): with the mask left by any run of any
\* earlier query, a candidate scores what it would score without a mask.
THEOREM CandidateFilterInvisible == Spec => []FilterInvisible
<1>1. CandidateInv => FilterInvisible
  BY DEF CandidateInv
<1> QED
  BY <1>1, CandidateInvariant, PTL

\* The score of a needle in a reachable state is that of the search.
LEMMA SearchScores ==
  ASSUME CandidateInv, Needle(query) # <<>>
  PROVE  score = MatchScore(text, Needle(query), IgnoreCase(query), options.dots)
<1>1. text \in Seq(STRING) /\ Needle(query) \in Seq(STRING)
  BY Texts DEF CandidateInv
<1>2. score = ScoreWith(text, Needle(query), IgnoreCase(query), options.dots, UnsetMask)
  BY DEF CandidateInv, FilterInvisible
<1> QED
  BY <1>1, <1>2, ScoreIs

\* No candidate scores above the bound it is pruned by (matcher.c:358-381).
THEOREM CandidateWithinBound == Spec => []WithinBound
<1>1. ASSUME CandidateInv, Needle(query) # <<>>
      PROVE  score <= UpperBound(text, Needle(query))
  <2>1. text \in Seq(STRING) /\ Needle(query) \in Seq(STRING)
    BY <1>1, Texts DEF CandidateInv
  <2>2. score = MatchScore(text, Needle(query), IgnoreCase(query), options.dots)
    BY <1>1, SearchScores
  <2> QED
    BY <1>1, <2>1, <2>2, MatchScoreIs
<1>2. CandidateInv => WithinBound
  BY <1>1 DEF WithinBound
<1> QED
  BY <1>2, CandidateInvariant, PTL

\* What the score of a needle says: 0 or more; more than 0 only for a match; and more than 0
\* for every match where dot-files are always shown.
LEMMA ScoreSays ==
  ASSUME CandidateInv, Needle(query) # <<>>
  PROVE  /\ score \in Nat
         /\ score > 0 => Matches(text, Needle(query), IgnoreCase(query))
         /\ options.dots = "always" /\ Matches(text, Needle(query), IgnoreCase(query))
              => score > 0
<1>1. /\ text \in Seq(STRING) /\ Needle(query) \in Seq(STRING)
      /\ Scale >= 5 * Len(Needle(query)) * Len(text)
  BY Texts DEF CandidateInv
<1>2. score = MatchScore(text, Needle(query), IgnoreCase(query), options.dots)
  BY SearchScores
<1>3. Scale \in Nat
  BY ScaleAssumption
<1>4. /\ score \in 0 .. Scale
      /\ score # 0 => Matches(text, Needle(query), IgnoreCase(query))
  BY <1>1, <1>2, MatchScoreIs
<1>5. options.dots = "always" /\ Matches(text, Needle(query), IgnoreCase(query))
        => score > 0
  BY <1>1, <1>2, MatchScoreIs
<1> QED
  BY <1>3, <1>4, <1>5

\* The part that is used of the state after a step.
Says ==
  Needle(query) # <<>> =>
    score \in Nat /\ (score > 0 => Matches(text, Needle(query), IgnoreCase(query)))

LEMMA InvSays == CandidateInv => Says
BY ScoreSays DEF Says

\* A candidate that scores above 0 has the needle's characters in order; where dot-files
\* are always shown, every candidate that has them scores above 0 (score.c:32-117).
THEOREM CandidateScoresMatches == Spec => []ScoresMatches
<1>1. CandidateInv => ScoresMatches
  BY ScoreSays DEF ScoresMatches
<1> QED
  BY <1>1, CandidateInvariant, PTL

\* One more character typed: where dot-files are always shown, a score of 0 stays 0.
LEMMA TypingNarrows ==
  ASSUME CandidateInv, CandidateInv', NEW c \in Keys, Type(c),
         options.dots = "always", score = 0
  PROVE  score' = 0
<1> DEFINE n == Needle(query)
           now == Needle(Append(query, c))
<1>1. /\ text \in Seq(STRING) /\ query \in Seq(STRING) /\ n \in Seq(STRING)
      /\ options \in [ignoreCase: BOOLEAN, smartCase: BOOLEAN, ignoreSpaces: BOOLEAN,
                      dots: DotModes]
  BY Texts DEF CandidateInv
<1>2. query' = Append(query, c) /\ text' = text /\ options' = options
  BY DEF Type, Run
<1>3. c \in STRING /\ Scale \in Nat \ {0}
  BY TextAssumption, ScaleAssumption
<1>4. n # <<>>
  <2>1. score = ScoreWith(text, n, IgnoreCase(query), options.dots, UnsetMask)
    BY DEF CandidateInv, FilterInvisible
  <2>2. n = <<>> => score = Scale
    BY <1>1, <2>1, ScoreIs
  <2> QED
    BY <1>3, <2>2
<1>5. ~ Matches(text, n, IgnoreCase(query))
  BY <1>4, ScoreSays
<1>6. now = n \/ \E x \in STRING : now = Append(n, x)
  BY <1>1, <1>3, NeedleOfMore
<1>7. now # <<>>
  BY <1>1, <1>4, <1>6, AppendProperties
<1>8. Needle(query)' = now /\ IgnoreCase(query)' = IgnoreCase(Append(query, c))
  BY <1>2 DEF Needle, IgnoreCase, HasUpper
<1>9. /\ IgnoreCase(query) \in BOOLEAN /\ IgnoreCase(Append(query, c)) \in BOOLEAN
      /\ IgnoreCase(Append(query, c)) => IgnoreCase(query)
      /\ IgnoreCase(query) /\ ~ IgnoreCase(Append(query, c))
           => options.smartCase /\ ~ HasUpper(query)
  <2>1. HasUpper(query) => HasUpper(Append(query, c))
    <3>1. \A i \in 1 .. Len(query) : Append(query, c)[i] = query[i]
      BY <1>1, <1>3, AppendProperties
    <3>2. Append(query, c) \in Seq(STRING)
      BY <1>1, <1>3, AppendProperties
    <3>3. Len(Append(query, c)) = Len(query) + 1
      BY <1>1, <1>3, AppendProperties
    <3>4. DOMAIN query = 1 .. Len(query) /\ DOMAIN Append(query, c) = 1 .. Len(query) + 1
      BY <1>1, <3>2, <3>3
    <3>5. \A i \in 1 .. Len(query) : i \in 1 .. Len(query) + 1
      BY <1>1
    <3> QED
      BY <3>1, <3>4, <3>5 DEF HasUpper
  <2> QED
    BY <1>1, <2>1, Zenon DEF IgnoreCase
<1>10. IgnoreCase(query) /\ ~ IgnoreCase(Append(query, c))
         => \A i \in 1 .. Len(n) : n[i] \notin Upper
  <2>1. DOMAIN query = 1 .. Len(query)
    BY <1>1
  <2>2. ~ HasUpper(query) => \A k \in 1 .. Len(query) : query[k] \notin Upper
    BY <2>1 DEF HasUpper
  <2>3. options.smartCase => \A i \in 1 .. Len(n) : \E k \in 1 .. Len(query) : n[i] = query[k]
    BY <1>1, NeedleIs
  <2> QED
    BY <1>9, <2>2, <2>3
<1>11. ~ Matches(text, now, IgnoreCase(Append(query, c)))
  <2>1. PICK x \in STRING : now = n \/ now = Append(n, x)
    BY <1>3, <1>6
  <2>2. PICK was \in BOOLEAN, is \in BOOLEAN :
          was = IgnoreCase(query) /\ is = IgnoreCase(Append(query, c))
    BY <1>9
  <2>3. (is => was) /\ (was /\ ~ is => \A i \in 1 .. Len(n) : n[i] \notin Upper)
    BY <1>9, <1>10, <2>2
  <2> HIDE DEF n, now
  <2>4. Matches(text, now, is) => Matches(text, n, was)
    BY <1>1, <2>1, <2>3, MatchesShorter
  <2> QED
    BY <1>5, <2>2, <2>4
<1>12. score' \in Nat /\ ~ (score' > 0)
  <2>1. Needle(query)' # <<>>
    BY <1>7, <1>8
  <2>2. (CandidateInv => Says)'
    BY InvSays, PTL
  <2>3. score' \in Nat /\ (score' > 0 => Matches(text', Needle(query)', IgnoreCase(query)'))
    BY <2>1, <2>2 DEF Says
  <2> QED
    BY <1>2, <1>8, <1>11, <2>3
<1> QED
  BY <1>12

\* matcher.c:353-354, where dot-files are always shown: a candidate that scores 0 goes on
\* scoring 0 while the user types on.
THEOREM CandidateNarrowingWhenShown == Spec => NarrowingWhenShown
<1> DEFINE A == options.dots = "always" /\ Len(query') > Len(query) /\ score = 0 => score' = 0
<1>1. ASSUME CandidateInv, CandidateInv', Next,
             options.dots = "always", Len(query') > Len(query), score = 0
      PROVE  score' = 0
  <2>1. query \in Seq(Keys) /\ Len(query) \in Nat
    BY <1>1, KeysAreText DEF CandidateInv, TypeOK
  <2>2. CASE Delete
    <3>1. query # <<>> /\ query' = SubSeq(query, 1, Len(query) - 1)
      BY <2>2 DEF Delete, Run
    <3>2. Len(query') = Len(query) - 1
      BY <2>1, <3>1, ShorterByOne
    <3> QED
      BY <1>1, <2>1, <3>2
  <2>3. CASE Clear
    <3>1. query' = <<>> /\ Len(<<>>) = 0
      BY <2>3 DEF Clear, Run
    <3> QED
      BY <1>1, <2>1, <3>1
  <2>4. ASSUME NEW c \in Keys, Type(c) PROVE score' = 0
    BY <1>1, <2>4, TypingNarrows
  <2> QED
    BY <1>1, <2>2, <2>3, <2>4 DEF Next
<1>2. CandidateInv /\ CandidateInv' /\ [Next]_vars => [A]_vars
  BY <1>1
<1> QED
  BY <1>2, CandidateInvariant, PTL DEF Spec, NarrowingWhenShown
=============================================================================
