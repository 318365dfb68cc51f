----------------------------- MODULE Induction -----------------------------
(***************************************************************************)
(* Induction over the naturals for a set instead of a predicate: the form   *)
(* the provers can use, as a set is a term.  The proofs about recursive     *)
(* functions (Rightmost and Match of Score.tla) rest on it.                 *)
(***************************************************************************)
EXTENDS Integers, WellFoundedInduction, TLAPS

\* A set of naturals that is not empty has a least element.
LEMMA Least ==
  ASSUME NEW T \in SUBSET Nat, T # {}
  PROVE  \E n \in T : \A k \in T : n <= k
<1>1. PICK n \in T : \A k \in T : ~ (<<k, n>> \in OpToRel(<, Nat))
  BY WFMin, NatLessThanWellFounded
<1>2. \A k \in T : ~ k < n
  BY <1>1 DEF OpToRel
<1> QED
  BY <1>2

\* A set of integers below a bound that is not empty has a greatest element.
LEMMA Greatest ==
  ASSUME NEW T \in SUBSET Int, T # {}, NEW b \in Int, \A k \in T : k <= b
  PROVE  \E n \in T : \A k \in T : k <= n
<1> DEFINE U == { d \in Nat : b - d \in T }
<1>1. \A k \in T : b - k \in U
  OBVIOUS
<1>2. U \in SUBSET Nat /\ U # {}
  BY <1>1
<1>3. \A d \in U : d \in Nat /\ b - d \in T
  OBVIOUS
<1> HIDE DEF U
<1>4. PICK d \in U : \A e \in U : d <= e
  BY <1>2, Least
<1>5. \A k \in T : d <= b - k
  BY <1>1, <1>4
<1>6. \A k \in T : k <= b - d
  BY <1>3, <1>5
<1> QED
  BY <1>3, <1>6

\* A set of naturals with 0 and, with every n, n + 1, has every natural.
LEMMA Induct ==
  ASSUME NEW S \in SUBSET Nat, 0 \in S, \A n \in S : n + 1 \in S
  PROVE  S = Nat
<1>1. SUFFICES ASSUME Nat \ S # {} PROVE FALSE
  OBVIOUS
<1>2. PICK n \in Nat \ S : \A k \in Nat \ S : n <= k
  BY <1>1, Least
<1>3. n # 0 /\ n - 1 \in Nat
  BY <1>2
<1>4. n - 1 \in S
  BY <1>2, <1>3
<1> QED
  BY <1>2, <1>3, <1>4

\* Steps from each of n numbers to the next, iterated from the first number to the last
\* and from the last to the first.
Up(n, start, step) ==
  CHOOSE f : f = [i \in 0 .. n |-> IF i = 0 THEN start ELSE step[i][f[i - 1]]]

Down(n, start, step) ==
  CHOOSE f : f = [i \in 1 .. n + 1 |-> IF i > n THEN start ELSE step[i][f[i + 1]]]

\* The function that steps define by recursion exists.
LEMMA UpIs ==
  ASSUME NEW n \in Nat, NEW S, NEW start \in S, NEW step,
         \A i \in 1 .. n : \A s \in S : step[i][s] \in S
  PROVE  /\ Up(n, start, step) = [i \in 0 .. n |-> IF i = 0 THEN start
                                                  ELSE step[i][Up(n, start, step)[i - 1]]]
         /\ \A i \in 0 .. n : Up(n, start, step)[i] \in S
<1> DEFINE Fits(f, k) == f[0] = start /\ \A i \in 1 .. k : f[i] = step[i][f[i - 1]]
           T == { k \in Nat : k <= n => \E f \in [0 .. k -> S] : Fits(f, k) }
<1>1. 0 \in T
  <2>1. [i \in 0 .. 0 |-> start] \in [0 .. 0 -> S]
    OBVIOUS
  <2>2. Fits([i \in 0 .. 0 |-> start], 0)
    OBVIOUS
  <2> QED
    BY <2>1, <2>2
<1>2. ASSUME NEW k \in T PROVE k + 1 \in T
  <2> SUFFICES ASSUME k + 1 <= n PROVE \E f \in [0 .. k + 1 -> S] : Fits(f, k + 1)
    OBVIOUS
  <2>1. PICK f \in [0 .. k -> S] : Fits(f, k)
    OBVIOUS
  <2>2. step[k + 1][f[k]] \in S
    <3>1. k + 1 \in 1 .. n /\ f[k] \in S
      OBVIOUS
    <3> QED
      BY <3>1
  <2> DEFINE g == [i \in 0 .. k + 1 |-> IF i = k + 1 THEN step[k + 1][f[k]] ELSE f[i]]
  <2>3. g \in [0 .. k + 1 -> S]
    BY <2>2
  <2>4. \A i \in 0 .. k : g[i] = f[i]
    OBVIOUS
  <2>5. g[k + 1] = step[k + 1][f[k]]
    OBVIOUS
  <2> HIDE DEF g
  <2>6. g[0] = start
    BY <2>1, <2>4
  <2>7. ASSUME NEW i \in 1 .. k + 1 PROVE g[i] = step[i][g[i - 1]]
    <3>1. CASE i = k + 1
      BY <2>4, <2>5, <3>1
    <3>2. CASE i # k + 1
      <4>1. i \in 1 .. k /\ i \in 0 .. k /\ i - 1 \in 0 .. k
        BY <3>2
      <4> QED
        BY <2>1, <2>4, <4>1
    <3> QED
      BY <3>1, <3>2
  <2> QED
    BY <2>3, <2>6, <2>7
<1>3. T = Nat
  <2>1. T \in SUBSET Nat
    OBVIOUS
  <2> HIDE DEF T
  <2> QED
    BY <1>1, <1>2, <2>1, Induct
<1>4. n \in T
  <2> HIDE DEF T
  <2> QED
    BY <1>3
<1>5. PICK f \in [0 .. n -> S] : Fits(f, n)
  BY <1>4
<1>6. f = [i \in 0 .. n |-> IF i = 0 THEN start ELSE step[i][f[i - 1]]]
  <2>1. \A i \in 0 .. n : i = 0 \/ i \in 1 .. n
    OBVIOUS
  <2>2. \A i \in 0 .. n : f[i] = IF i = 0 THEN start ELSE step[i][f[i - 1]]
    BY <1>5, <2>1
  <2> QED
    BY <2>2
<1> DEFINE u == Up(n, start, step)
<1>7. u = [i \in 0 .. n |-> IF i = 0 THEN start ELSE step[i][u[i - 1]]]
  BY <1>6 DEF Up
<1> HIDE DEF u
<1>8. \A i \in 0 .. n : u[i] \in S
  <2> DEFINE V == { i \in Nat : i <= n => u[i] \in S }
  <2>1. 0 \in V
    BY <1>7
  <2>2. ASSUME NEW k \in V PROVE k + 1 \in V
    <3> SUFFICES ASSUME k + 1 <= n PROVE u[k + 1] \in S
      OBVIOUS
    <3>1. u[k] \in S /\ k + 1 \in 1 .. n /\ k + 1 \in 0 .. n /\ (k + 1) - 1 = k
      OBVIOUS
    <3>2. u[k + 1] = step[k + 1][u[k]]
      BY <1>7, <3>1
    <3> QED
      BY <3>1, <3>2
  <2>3. V \in SUBSET Nat
    OBVIOUS
  <2>4. \A i \in V : i <= n => u[i] \in S
    OBVIOUS
  <2> HIDE DEF V
  <2>5. V = Nat
    BY <2>1, <2>2, <2>3, Induct
  <2> QED
    BY <2>4, <2>5
<1> QED
  BY <1>7, <1>8 DEF u

LEMMA DownIs ==
  ASSUME NEW n \in Nat, NEW S, NEW start \in S, NEW step,
         \A i \in 1 .. n : \A s \in S : step[i][s] \in S
  PROVE  /\ Down(n, start, step) = [i \in 1 .. n + 1 |->
                                      IF i > n THEN start
                                      ELSE step[i][Down(n, start, step)[i + 1]]]
         /\ \A i \in 1 .. n + 1 : Down(n, start, step)[i] \in S
<1>1. PICK up : up = [i \in 1 .. n |-> step[n + 1 - i]]
  OBVIOUS
<1>2. \A i \in 1 .. n : up[i] = step[n + 1 - i]
  BY <1>1
<1>3. \A i \in 1 .. n : \A s \in S : up[i][s] \in S
  <2>1. ASSUME NEW i \in 1 .. n PROVE \A s \in S : up[i][s] \in S
    <3>1. up[i] = step[n + 1 - i] /\ n + 1 - i \in 1 .. n
      BY <1>2
    <3> QED
      BY <3>1
  <2> QED
    BY <2>1
<1>4. PICK g : g = Up(n, start, up)
  OBVIOUS
<1>5. \A k \in 0 .. n : g[k] = IF k = 0 THEN start ELSE up[k][g[k - 1]]
  BY <1>3, <1>4, UpIs
<1> DEFINE f == [i \in 1 .. n + 1 |-> g[n + 1 - i]]
<1>6. ASSUME NEW i \in 1 .. n + 1
      PROVE  f[i] = IF i > n THEN start ELSE step[i][f[i + 1]]
  <2>1. PICK k \in 0 .. n : k = n + 1 - i
    OBVIOUS
  <2>2. f[i] = g[k] /\ g[k] = IF k = 0 THEN start ELSE up[k][g[k - 1]]
    BY <1>5, <2>1
  <2>3. CASE k = 0
    BY <2>1, <2>2, <2>3
  <2>4. CASE k # 0
    <3>1. k \in 1 .. n /\ i + 1 \in 1 .. n + 1 /\ n + 1 - k = i /\ n + 1 - (i + 1) = k - 1
      BY <2>1, <2>4
    <3>2. f[i + 1] = g[k - 1] /\ up[k] = step[i]
      BY <1>2, <3>1
    <3> QED
      BY <2>1, <2>2, <2>4, <3>1, <3>2
  <2> QED
    BY <2>3, <2>4
<1>7. f = [i \in 1 .. n + 1 |-> IF i > n THEN start ELSE step[i][f[i + 1]]]
  <2>1. f = [i \in 1 .. n + 1 |-> f[i]]
    BY DEF f
  <2> HIDE DEF f
  <2> QED
    BY <1>6, <2>1
<1> DEFINE d == Down(n, start, step)
<1>8. d = [i \in 1 .. n + 1 |-> IF i > n THEN start ELSE step[i][d[i + 1]]]
  BY <1>7 DEF Down
<1> HIDE DEF d
<1>9. \A i \in 1 .. n + 1 : d[i] \in S
  <2> DEFINE V == { k \in Nat : k <= n => d[n + 1 - k] \in S }
  <2>1. 0 \in V
    <3>1. n + 1 - 0 = n + 1 /\ n + 1 \in 1 .. n + 1 /\ n + 1 > n
      OBVIOUS
    <3>2. d[n + 1] = start
      BY <1>8, <3>1
    <3> QED
      BY <3>1, <3>2
  <2>2. ASSUME NEW k \in V PROVE k + 1 \in V
    <3> SUFFICES ASSUME k + 1 <= n PROVE d[n + 1 - (k + 1)] \in S
      OBVIOUS
    <3>1. PICK i \in 1 .. n : i = n + 1 - (k + 1)
      OBVIOUS
    <3>2. n + 1 - k = i + 1 /\ i \in 1 .. n + 1 /\ ~ i > n
      BY <3>1
    <3>3. d[i] = step[i][d[i + 1]] /\ d[i + 1] \in S
      BY <1>8, <3>2
    <3> QED
      BY <3>1, <3>3
  <2>3. V \in SUBSET Nat
    OBVIOUS
  <2>4. \A k \in V : k <= n => d[n + 1 - k] \in S
    OBVIOUS
  <2> HIDE DEF V
  <2>5. V = Nat
    BY <2>1, <2>2, <2>3, Induct
  <2>6. ASSUME NEW i \in 1 .. n + 1 PROVE d[i] \in S
    <3>1. PICK k \in Nat : k = n + 1 - i
      OBVIOUS
    <3>2. k <= n /\ n + 1 - k = i
      BY <3>1
    <3> QED
      BY <2>4, <2>5, <3>2
  <2> QED
    BY <2>6
<1> QED
  BY <1>8, <1>9 DEF d

\* A function stays in a set that it starts in and no step leaves.
LEMMA StaysUp ==
  ASSUME NEW n \in Nat, NEW S, NEW f, f[0] \in S,
         \A i \in 1 .. n : f[i - 1] \in S => f[i] \in S
  PROVE  \A i \in 0 .. n : f[i] \in S
<1> DEFINE V == { i \in Nat : i <= n => f[i] \in S }
<1>1. 0 \in V
  OBVIOUS
<1>2. ASSUME NEW k \in V PROVE k + 1 \in V
  <2> SUFFICES ASSUME k + 1 <= n PROVE f[k + 1] \in S
    OBVIOUS
  <2>1. f[k] \in S /\ k + 1 \in 1 .. n /\ (k + 1) - 1 = k
    OBVIOUS
  <2> QED
    BY <2>1
<1>3. V \in SUBSET Nat /\ \A i \in V : i <= n => f[i] \in S
  OBVIOUS
<1> HIDE DEF V
<1>4. V = Nat
  BY <1>1, <1>2, <1>3, Induct
<1> QED
  BY <1>3, <1>4

LEMMA StaysDown ==
  ASSUME NEW n \in Nat, NEW S, NEW f, f[n + 1] \in S,
         \A i \in 1 .. n : f[i + 1] \in S => f[i] \in S
  PROVE  \A i \in 1 .. n + 1 : f[i] \in S
<1>1. PICK g : g = [k \in 0 .. n |-> f[n + 1 - k]]
  OBVIOUS
<1>2. g[0] \in S
  BY <1>1
<1>3. ASSUME NEW k \in 1 .. n, g[k - 1] \in S PROVE g[k] \in S
  <2>1. PICK i \in 1 .. n : i = n + 1 - k
    OBVIOUS
  <2>2. n + 1 - (k - 1) = i + 1 /\ k - 1 \in 0 .. n
    BY <2>1
  <2>3. g[k - 1] = f[i + 1] /\ g[k] = f[i]
    BY <1>1, <2>1, <2>2
  <2> QED
    BY <1>3, <2>3
<1>4. \A k \in 0 .. n : g[k] \in S
  BY <1>2, <1>3, StaysUp
<1>5. ASSUME NEW i \in 1 .. n + 1 PROVE f[i] \in S
  <2>1. PICK k \in 0 .. n : k = n + 1 - i
    OBVIOUS
  <2>2. n + 1 - k = i
    BY <2>1
  <2> QED
    BY <1>1, <1>4, <2>2
<1> QED
  BY <1>5
=============================================================================
