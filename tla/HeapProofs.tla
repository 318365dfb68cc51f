----------------------------- MODULE HeapProofs -----------------------------
(***************************************************************************)
(* What module Heap's runs check on five slots, proved for every capacity,  *)
(* every set of values and every comparator.                                *)
(*                                                                          *)
(* The order of the heap is broken at one index while an operation runs.    *)
(* IInv says exactly where: a bubbling entry may only be worse than its     *)
(* parent, a sifting one only better than its children, and in both cases   *)
(* the parent of the odd entry is no better than its children.              *)
(***************************************************************************)
EXTENDS Heap, TLAPS, WellFoundedInduction, FiniteSetTheorems, FunctionTheorems

Used == 0 .. (count - 1)

AtMost(i, j) == Place[entries[i]] <= Place[entries[j]]

\* The parent of the odd entry dominates the odd entry's children.
Bridged ==
  idx > 0 => \A i \in 1 .. (count - 1) : Parent(i) = idx => AtMost(i, Parent(idx))

Ordered ==
  /\ pc = "idle" => \A i \in 1 .. (count - 1) : AtMost(i, Parent(i))
  /\ pc = "bubbling" =>
       /\ idx < count
       /\ \A i \in 1 .. (count - 1) : i # idx => AtMost(i, Parent(i))
       /\ Bridged
  /\ pc = "sifting" =>
       /\ \A i \in 1 .. (count - 1) : Parent(i) # idx => AtMost(i, Parent(i))
       /\ Bridged

\* No value is held twice.
Distinct == \A i, j \in Used : i # j => entries[i] # entries[j]

IInv == TypeOK /\ Distinct /\ Ordered

\* The index arithmetic of a heap: a parent lies below its children, and an entry has no
\* child but its left and its right one.
LEMMA ParentBelow ==
  ASSUME NEW i \in Nat, i > 0
  PROVE  Parent(i) \in Nat /\ Parent(i) < i
BY SMT DEF Parent

LEMMA ChildrenOf ==
  ASSUME NEW i \in Nat, NEW j \in Nat, i > 0, Parent(i) = j
  PROVE  i = Left(j) \/ i = Right(j)
BY SMT DEF Parent, Left, Right

LEMMA ParentOfChildren ==
  ASSUME NEW j \in Nat
  PROVE  /\ Left(j) \in Nat /\ Left(j) > j /\ Parent(Left(j)) = j
         /\ Right(j) \in Nat /\ Right(j) > j /\ Parent(Right(j)) = j
BY SMT DEF Parent, Left, Right

\* The entry an operation swaps with its parent or child: both are used slots.
LEMMA WorseChildOf ==
  ASSUME TypeOK, WorseChild(idx) # idx
  PROVE  /\ WorseChild(idx) \in 1 .. (count - 1)
         /\ Parent(WorseChild(idx)) = idx
         /\ idx < WorseChild(idx)
         /\ \A i \in 1 .. (count - 1) : Parent(i) = idx => AtMost(i, WorseChild(idx))
<1> DEFINE k == WorseChild(idx)
<1>1. idx \in Nat /\ count \in Nat
  BY HeapAssumption DEF TypeOK, Slots
<1>2. \A i \in 0 .. (count - 1) : Place[entries[i]] \in Int
  BY HeapAssumption DEF TypeOK
<1>3. k \in {Left(idx), Right(idx)} /\ k < count
  BY <1>1 DEF WorseChild, Left, Right
<1>4. k > idx /\ Parent(k) = idx /\ k \in Nat
  BY <1>1, <1>3, ParentOfChildren
<1>5. ASSUME NEW i \in 1 .. (count - 1), Parent(i) = idx
      PROVE  Place[entries[i]] <= Place[entries[k]]
  <2>1. i = Left(idx) \/ i = Right(idx)
    BY <1>1, <1>5, ChildrenOf
  <2>2. Left(idx) \in Nat /\ Right(idx) \in Nat /\ Left(idx) < Right(idx)
    BY <1>1 DEF Left, Right
  <2>3. Place[entries[i]] \in Int
    BY <1>2
  <2>4. CASE Right(idx) < count
    <3>1. Place[entries[Left(idx)]] \in Int /\ Place[entries[Right(idx)]] \in Int
      BY <1>1, <1>2, <2>2, <2>4
    <3> QED
      BY <2>1, <2>4, <3>1 DEF WorseChild
  <2>5. CASE ~ (Right(idx) < count)
    BY <1>1, <2>1, <2>2, <2>3, <2>5 DEF WorseChild
  <2> QED
    BY <2>4, <2>5
<1> QED
  BY <1>1, <1>3, <1>4, <1>5 DEF AtMost

LEMMA NoChild ==
  ASSUME TypeOK, WorseChild(idx) = idx
  PROVE  \A i \in 1 .. (count - 1) : Parent(i) # idx
<1> SUFFICES ASSUME NEW i \in 1 .. (count - 1), Parent(i) = idx
             PROVE  FALSE
  OBVIOUS
<1>1. idx \in Nat /\ count \in Nat
  BY HeapAssumption DEF TypeOK, Slots
<1>2. i = Left(idx) \/ i = Right(idx)
  BY <1>1, ChildrenOf
<1> QED
  BY <1>1, <1>2 DEF WorseChild, Left, Right

LEMMA InitIInv == Init => IInv
<1> SUFFICES ASSUME Init PROVE IInv
  OBVIOUS
<1>1. TypeOK
  BY HeapAssumption DEF Init, TypeOK, Slots
<1>2. Distinct /\ Ordered
  BY DEF Init, Distinct, Ordered, Used
<1> QED
  BY <1>1, <1>2 DEF IInv

LEMMA InsertKeeps ==
  ASSUME IInv, NEW v \in Values, Insert(v)
  PROVE  IInv'
<1>1. /\ count \in Nat /\ count < Capacity /\ Capacity \in Nat
      /\ count' = count + 1 /\ idx' = count /\ pc = "idle" /\ pc' = "bubbling"
  BY HeapAssumption DEF IInv, TypeOK, Insert
<1>2. /\ entries' \in [Slots -> Values \cup {NoValue}]
      /\ entries'[count] = v
      /\ \A i \in 0 .. (count - 1) : entries'[i] = entries[i]
  BY <1>1 DEF IInv, TypeOK, Insert, Slots
<1>3. TypeOK'
  <2>1. \A i \in 0 .. (count' - 1) : entries'[i] \in Values
    BY <1>1, <1>2 DEF IInv, TypeOK
  <2> QED
    BY <1>1, <1>2, <2>1 DEF IInv, TypeOK, Insert, Slots
<1>4. Distinct'
  <2>1. \A i \in 0 .. (count - 1) : entries[i] # v
    BY DEF Insert, Contents
  <2> QED
    BY <1>1, <1>2, <2>1 DEF IInv, Distinct, Used
<1>5. Ordered'
  <2>1. ASSUME NEW i \in 1 .. count, i # count
        PROVE  AtMost(i, Parent(i))'
    <3>1. i \in 1 .. (count - 1) /\ Parent(i) \in 0 .. (count - 1)
      BY <1>1, <2>1, ParentBelow
    <3>2. AtMost(i, Parent(i))
      BY <1>1, <3>1 DEF IInv, Ordered
    <3> QED
      BY <1>2, <3>1, <3>2 DEF AtMost, Parent
  <2>2. \A i \in 1 .. count : Parent(i) # count
    BY <1>1, ParentBelow
  <2> QED
    BY <1>1, <2>1, <2>2 DEF Ordered, Bridged, Parent
<1> QED
  BY <1>3, <1>4, <1>5 DEF IInv

LEMMA BubbleUpKeeps ==
  ASSUME IInv, BubbleUp
  PROVE  IInv'
<1> DEFINE p == Parent(idx)
<1>1. /\ count \in Nat /\ idx \in Nat /\ idx > 0 /\ idx < count /\ count <= Capacity
      /\ count' = count /\ idx' = p /\ pc = "bubbling" /\ pc' = "bubbling"
  BY HeapAssumption DEF IInv, TypeOK, Ordered, BubbleUp, Slots
<1>2. p \in Nat /\ p < idx
  BY <1>1, ParentBelow
<1>3. /\ entries' \in [Slots -> Values \cup {NoValue}]
      /\ entries'[idx] = entries[p]
      /\ entries'[p] = entries[idx]
      /\ \A i \in 0 .. (count - 1) : i # idx /\ i # p => entries'[i] = entries[i]
  BY <1>1, <1>2, HeapAssumption DEF IInv, TypeOK, BubbleUp, Swapped, Slots
<1>4. \A i \in 0 .. (count - 1) : entries[i] \in Values /\ Place[entries[i]] \in Int
  BY HeapAssumption DEF IInv, TypeOK
<1>5. AtMost(p, idx)
  BY <1>1, <1>2, <1>4 DEF BubbleUp, Property, AtMost
<1>6. TypeOK'
  <2>1. \A i \in 0 .. (count - 1) : entries'[i] \in Values
    BY <1>1, <1>2, <1>3, <1>4
  <2> QED
    BY <1>1, <1>2, <1>3, <2>1, HeapAssumption DEF IInv, TypeOK, BubbleUp, Slots
<1>7. Distinct'
  BY <1>1, <1>2, <1>3 DEF IInv, Distinct, Used
<1>8. ASSUME NEW i \in 1 .. (count - 1), i # p
      PROVE  AtMost(i, Parent(i))'
  <2>1. Parent(i) \in 0 .. (count - 1) /\ Parent(i) < i
    BY <1>1, ParentBelow
  <2>2. i # idx => AtMost(i, Parent(i))
    BY <1>1 DEF IInv, Ordered
  <2>3. CASE i = idx
    BY <1>1, <1>2, <1>3, <1>5, <2>3 DEF AtMost, Parent
  <2>4. CASE i # idx /\ Parent(i) = p
    BY <1>1, <1>2, <1>3, <1>4, <1>5, <1>8, <2>2, <2>4 DEF AtMost, Parent
  <2>5. CASE i # idx /\ Parent(i) = idx
    <3>1. AtMost(i, p)
      BY <1>1, <2>5 DEF IInv, Ordered, Bridged
    <3> QED
      BY <1>1, <1>2, <1>3, <1>8, <2>5, <3>1 DEF AtMost, Parent
  <2>6. CASE i # idx /\ Parent(i) # p /\ Parent(i) # idx
    BY <1>1, <1>3, <1>8, <2>1, <2>2, <2>6 DEF AtMost, Parent
  <2> QED
    BY <2>3, <2>4, <2>5, <2>6
<1>9. Bridged'
  <2> SUFFICES ASSUME p > 0, NEW i \in 1 .. (count - 1), Parent(i) = p
               PROVE  Place[entries'[i]] <= Place[entries'[Parent(p)]]
    BY <1>1 DEF Bridged, Parent, AtMost
  <2>1. Parent(p) \in 0 .. (count - 1) /\ Parent(p) < p /\ Parent(p) # idx
    BY <1>1, <1>2, ParentBelow
  <2>2. AtMost(p, Parent(p))
    BY <1>1, <1>2 DEF IInv, Ordered
  <2>3. i # idx => AtMost(i, p)
    BY <1>1 DEF IInv, Ordered
  <2>4. i # p
    BY <2>1
  <2>5. entries'[Parent(p)] = entries[Parent(p)]
    BY <1>3, <2>1
  <2>6. CASE i = idx
    BY <1>3, <2>2, <2>5, <2>6 DEF AtMost, Parent
  <2>7. CASE i # idx
    <3>1. entries'[i] = entries[i]
      BY <1>3, <2>4, <2>7
    <3>2. Place[entries[i]] <= Place[entries[Parent(p)]]
      BY <1>1, <1>2, <1>4, <2>1, <2>2, <2>3, <2>7 DEF AtMost
    <3> QED
      BY <2>5, <3>1, <3>2 DEF AtMost, Parent
  <2> QED
    BY <2>6, <2>7
<1>10. Ordered'
  BY <1>1, <1>2, <1>8, <1>9 DEF Ordered, Parent
<1> QED
  BY <1>6, <1>7, <1>10 DEF IInv

LEMMA InsertedKeeps ==
  ASSUME IInv, Inserted
  PROVE  IInv'
<1>1. TypeOK' /\ Distinct'
  BY DEF IInv, TypeOK, Distinct, Used, Inserted
<1>2. /\ count \in Nat /\ idx \in Nat /\ idx < count
      /\ pc = "bubbling" /\ pc' = "idle" /\ entries' = entries /\ count' = count
  BY HeapAssumption DEF IInv, TypeOK, Ordered, Inserted, Slots
<1>3. \A i \in 0 .. (count - 1) : Place[entries[i]] \in Int
  BY HeapAssumption DEF IInv, TypeOK
<1>4. idx > 0 => AtMost(idx, Parent(idx))
  BY <1>2, <1>3, ParentBelow DEF Inserted, Property, AtMost
<1>5. Ordered'
  BY <1>2, <1>4 DEF IInv, Ordered, AtMost, Parent
<1> QED
  BY <1>1, <1>5 DEF IInv

LEMMA ExtractKeeps ==
  ASSUME IInv, Extract
  PROVE  IInv'
<1>1. /\ count \in Nat /\ count > 0 /\ count <= Capacity /\ Capacity \in Nat
      /\ count' = count - 1 /\ idx' = 0 /\ pc = "idle" /\ pc' = "sifting"
  BY HeapAssumption DEF IInv, TypeOK, Extract
<1>2. /\ entries' \in [Slots -> Values \cup {NoValue}]
      /\ entries'[0] = entries[count - 1]
      /\ \A i \in 1 .. (count - 1) : entries'[i] = entries[i]
  BY <1>1 DEF IInv, TypeOK, Extract, Slots
<1>3. TypeOK'
  <2>1. \A i \in 0 .. (count' - 1) : entries'[i] \in Values
    BY <1>1, <1>2 DEF IInv, TypeOK
  <2>2. entries[0] \in Values
    BY <1>1 DEF IInv, TypeOK
  <2> QED
    BY <1>1, <1>2, <2>1, <2>2 DEF IInv, TypeOK, Extract, Slots
<1>4. Distinct'
  BY <1>1, <1>2 DEF IInv, Distinct, Used
<1>5. ASSUME NEW i \in 1 .. (count' - 1), Parent(i) # 0
      PROVE  AtMost(i, Parent(i))'
  <2>1. Parent(i) \in 1 .. (count - 1)
    BY <1>1, <1>5, ParentBelow
  <2> QED
    BY <1>1, <1>2, <2>1 DEF IInv, Ordered, AtMost, Parent
<1>6. Ordered'
  BY <1>1, <1>5 DEF Ordered, Bridged, Parent
<1> QED
  BY <1>3, <1>4, <1>6 DEF IInv

LEMMA SiftDownKeeps ==
  ASSUME IInv, SiftDown
  PROVE  IInv'
<1> DEFINE k == WorseChild(idx)
<1>1. TypeOK /\ WorseChild(idx) # idx /\ ~ Property(idx, WorseChild(idx))
  BY DEF IInv, SiftDown, Settled
<1>2. /\ count \in Nat /\ idx \in Nat /\ count <= Capacity
      /\ count' = count /\ idx' = k /\ pc = "sifting" /\ pc' = "sifting"
  BY HeapAssumption DEF IInv, TypeOK, SiftDown, Slots
<1>3. /\ k \in 1 .. (count - 1)
      /\ Parent(k) = idx
      /\ idx < k
      /\ \A i \in 1 .. (count - 1) : Parent(i) = idx => AtMost(i, k)
  BY <1>1, WorseChildOf
<1>4. /\ entries' \in [Slots -> Values \cup {NoValue}]
      /\ entries'[idx] = entries[k]
      /\ entries'[k] = entries[idx]
      /\ \A i \in 0 .. (count - 1) : i # idx /\ i # k => entries'[i] = entries[i]
  <2>1. idx \in Slots /\ k \in Slots /\ (\A i \in 0 .. (count - 1) : i \in Slots)
    BY <1>2, <1>3, HeapAssumption DEF Slots
  <2>2. entries \in [Slots -> Values \cup {NoValue}]
    BY <1>1 DEF TypeOK
  <2>3. entries' = [entries EXCEPT ![idx] = entries[k], ![k] = entries[idx]]
    BY DEF SiftDown, Swapped
  <2> HIDE DEF k
  <2> QED
    BY <1>2, <1>3, <2>1, <2>2, <2>3
<1>5. \A i \in 0 .. (count - 1) : entries[i] \in Values /\ Place[entries[i]] \in Int
  BY HeapAssumption DEF IInv, TypeOK
<1>6. AtMost(idx, k)
  BY <1>1, <1>2, <1>3, <1>5 DEF Property, AtMost
<1>7. TypeOK'
  <2>1. \A i \in 0 .. (count - 1) : entries'[i] \in Values
    BY <1>2, <1>3, <1>4, <1>5
  <2> QED
    BY <1>2, <1>3, <1>4, <2>1, HeapAssumption DEF IInv, TypeOK, SiftDown, Slots
<1>8. Distinct'
  BY <1>2, <1>3, <1>4 DEF IInv, Distinct, Used
<1>9. ASSUME NEW i \in 1 .. (count - 1), Parent(i) # k
      PROVE  AtMost(i, Parent(i))'
  <2>1. Parent(i) \in 0 .. (count - 1) /\ Parent(i) < i
    BY <1>2, ParentBelow
  <2>2. Parent(i) # idx => AtMost(i, Parent(i))
    BY <1>2 DEF IInv, Ordered
  <2>3. CASE i = k
    BY <1>3, <1>4, <1>6, <2>3 DEF AtMost, Parent
  <2>4. CASE i # k /\ Parent(i) = idx
    <3>1. AtMost(i, k) /\ i # idx
      BY <1>3, <2>1, <2>4
    <3> QED
      BY <1>4, <2>4, <3>1 DEF AtMost, Parent
  <2>5. CASE i = idx
    <3>1. AtMost(k, Parent(idx))
      BY <1>2, <1>3, <2>5 DEF IInv, Ordered, Bridged
    <3> QED
      BY <1>3, <1>4, <1>9, <2>1, <2>5, <3>1 DEF AtMost, Parent
  <2>6. CASE i # k /\ i # idx /\ Parent(i) # idx
    BY <1>4, <1>9, <2>1, <2>2, <2>6 DEF AtMost, Parent
  <2> QED
    BY <2>3, <2>4, <2>5, <2>6
<1>10. ASSUME NEW i \in 1 .. (count - 1), Parent(i) = k
       PROVE  Place[entries'[i]] <= Place[entries'[Parent(k)]]
  <2>1. i # k /\ i # idx
    BY <1>2, <1>3, <1>10, ParentBelow
  <2>2. AtMost(i, k)
    BY <1>2, <1>3, <1>10 DEF IInv, Ordered
  <2> QED
    BY <1>3, <1>4, <2>1, <2>2 DEF AtMost
<1>11. Ordered'
  BY <1>2, <1>9, <1>10 DEF Ordered, Bridged, AtMost, Parent
<1> QED
  BY <1>7, <1>8, <1>11 DEF IInv

LEMMA ExtractedKeeps ==
  ASSUME IInv, Extracted
  PROVE  IInv'
<1>1. TypeOK' /\ Distinct'
  BY DEF IInv, TypeOK, Distinct, Used, Extracted
<1>2. /\ count \in Nat /\ idx \in Nat
      /\ pc = "sifting" /\ pc' = "idle" /\ entries' = entries /\ count' = count
  BY HeapAssumption DEF IInv, TypeOK, Extracted, Slots
<1>3. ASSUME NEW i \in 1 .. (count - 1)
      PROVE  AtMost(i, Parent(i))
  <2>1. CASE Parent(i) # idx
    BY <1>2, <2>1 DEF IInv, Ordered
  <2>2. CASE Parent(i) = idx
    <3>1. WorseChild(idx) # idx
      BY <2>2, NoChild DEF IInv
    <3>2. /\ WorseChild(idx) \in 1 .. (count - 1)
          /\ AtMost(i, WorseChild(idx))
          /\ idx < WorseChild(idx)
      BY <2>2, <3>1, WorseChildOf DEF IInv
    <3>3. Place[entries[idx]] > Place[entries[WorseChild(idx)]]
      BY <3>1 DEF Extracted, Settled, Property
    <3>4. /\ Place[entries[i]] \in Int
          /\ Place[entries[idx]] \in Int
          /\ Place[entries[WorseChild(idx)]] \in Int
      BY <1>2, <3>2, HeapAssumption DEF IInv, TypeOK
    <3> QED
      BY <2>2, <3>2, <3>3, <3>4 DEF AtMost
  <2> QED
    BY <2>1, <2>2
<1>4. Ordered'
  BY <1>2, <1>3 DEF Ordered, AtMost, Parent
<1> QED
  BY <1>1, <1>4 DEF IInv

LEMMA NextKeeps == IInv /\ [Next]_vars => IInv'
<1> SUFFICES ASSUME IInv, [Next]_vars PROVE IInv'
  OBVIOUS
<1>1. CASE \E v \in Values : Insert(v)
  BY <1>1, InsertKeeps
<1>2. CASE BubbleUp
  BY <1>2, BubbleUpKeeps
<1>3. CASE Inserted
  BY <1>3, InsertedKeeps
<1>4. CASE Extract
  BY <1>4, ExtractKeeps
<1>5. CASE SiftDown
  BY <1>5, SiftDownKeeps
<1>6. CASE Extracted
  BY <1>6, ExtractedKeeps
<1>7. CASE UNCHANGED vars
  BY <1>7 DEF vars, IInv, TypeOK, Distinct, Used, Ordered, Bridged, AtMost, Parent
<1> QED
  BY <1>1, <1>2, <1>3, <1>4, <1>5, <1>6, <1>7 DEF Next

THEOREM Invariance == Spec => []IInv
BY InitIInv, NextKeeps, PTL DEF Spec

\* heap.c writes inside its array, and the slots below `count` hold values, whatever was
\* inserted and extracted.
THEOREM TypeCorrect == Spec => []TypeOK
BY Invariance, PTL DEF IInv

\* After every operation no entry is worse than its parent.
THEOREM HeapIsOrdered == Spec => []HeapOrdered
<1>1. IInv => HeapOrdered
  BY DEF IInv, Ordered, HeapOrdered, AtMost
<1> QED
  BY <1>1, Invariance, PTL

\* No insert or extract loses a value or holds one twice.
THEOREM NothingDoubled == Spec => []NoDuplicates
<1>1. IInv => NoDuplicates
  BY DEF IInv, Distinct, NoDuplicates, Used
<1> QED
  BY <1>1, Invariance, PTL

LEMMA LeastNatural ==
  ASSUME NEW T, T \subseteq Nat, T # {}
  PROVE  \E m \in T : \A k \in T : m <= k
<1> DEFINE R == OpToRel(<, Nat)
<1>1. PICK m \in T : \A k \in T : ~ (<<k, m>> \in R)
  <2>1. IsWellFoundedOn(R, Nat)
    BY NatLessThanWellFounded
  <2> HIDE DEF R
  <2> QED
    BY <2>1, WFMin
<1>2. \A k \in T : ~ (k < m)
  BY <1>1 DEF OpToRel
<1> QED
  BY <1>2

\* Along the parents of any entry nothing is better than it, and they end at the root: no
\* induction, but the first entry that is worse than the root, whose parent is not.
LEMMA RootDominates ==
  ASSUME TypeOK, \A i \in 1 .. (count - 1) : AtMost(i, Parent(i))
  PROVE  \A i \in 0 .. (count - 1) : AtMost(i, 0)
<1> DEFINE Odd == { i \in 0 .. (count - 1) : ~ AtMost(i, 0) }
<1>1. count \in Nat
  BY HeapAssumption DEF TypeOK
<1>2. \A i \in 0 .. (count - 1) : Place[entries[i]] \in Int
  BY HeapAssumption DEF TypeOK
<1>3. ASSUME Odd # {} PROVE FALSE
  <2>1. PICK m \in Odd : \A k \in Odd : m <= k
    <3>1. Odd \subseteq Nat
      BY <1>1
    <3> HIDE DEF Odd
    <3> QED
      BY <1>3, <3>1, LeastNatural
  <2>2. m \in 0 .. (count - 1) /\ ~ AtMost(m, 0)
    BY <2>1
  <2>3. m > 0
    BY <1>1, <1>2, <2>2 DEF AtMost
  <2>4. Parent(m) \in 0 .. (count - 1) /\ Parent(m) < m
    BY <1>1, <2>2, <2>3, ParentBelow
  <2>5. AtMost(Parent(m), 0)
    BY <2>1, <2>4
  <2>6. AtMost(m, Parent(m))
    BY <1>1, <2>2, <2>3
  <2> QED
    BY <1>1, <1>2, <2>2, <2>3, <2>4, <2>5, <2>6 DEF AtMost
<1> QED
  BY <1>3

\* HEAP_PEEK() is a worst entry whenever get_matches() looks at it.
THEOREM RootStaysWorst == Spec => []RootIsWorst
<1>1. IInv => RootIsWorst
  BY RootDominates DEF IInv, Ordered, RootIsWorst, AtMost
<1> QED
  BY <1>1, Invariance, PTL

-----------------------------------------------------------------------------
(***************************************************************************)
(* heap.c implements WorstFirst: the swaps are stuttering steps.            *)
(***************************************************************************)

LEMMA ContentsCounted ==
  ASSUME IInv
  PROVE  Cardinality(Contents) = count
<1> DEFINE f == [i \in Used |-> entries[i]]
<1>1. count \in Nat
  BY HeapAssumption DEF IInv, TypeOK
<1>2. f \in Bijection(Used, Contents)
  BY DEF IInv, Distinct, Used, Contents, Bijection, Injection, Surjection, IsInjective
<1>3. IsFiniteSet(Used) /\ Cardinality(Used) = count
  <2>1. /\ IsFiniteSet(0 .. (count - 1))
        /\ Cardinality(0 .. (count - 1)) =
             IF 0 > count - 1 THEN 0 ELSE (count - 1) - 0 + 1
    BY <1>1, FS_Interval
  <2> QED
    BY <1>1, <2>1 DEF Used
<1>4. ExistsBijection(Used, Contents)
  BY <1>2 DEF ExistsBijection
<1> QED
  BY <1>3, <1>4, FS_Bijection

LEMMA SwapKeepsContents ==
  ASSUME TypeOK, NEW i \in 0 .. (count - 1), NEW j \in 0 .. (count - 1),
         entries' = Swapped(i, j), count' = count
  PROVE  Contents' = Contents
<1>1. i \in Slots /\ j \in Slots /\ (\A k \in 0 .. (count - 1) : k \in Slots)
  BY HeapAssumption DEF TypeOK, Slots
<1>2. /\ entries'[i] = entries[j] /\ entries'[j] = entries[i]
      /\ \A k \in 0 .. (count - 1) : k # i /\ k # j => entries'[k] = entries[k]
  BY <1>1 DEF TypeOK, Swapped
<1> QED
  BY <1>2 DEF Contents

LEMMA InitRefines == Init => Abstract!Init
BY DEF Init, Abstract!Init, Contents

LEMMA InsertRefines ==
  ASSUME IInv, NEW v \in Values, Insert(v)
  PROVE  Abstract!Insert(v)
<1>1. count \in Nat /\ count < Capacity /\ count' = count + 1
  BY HeapAssumption DEF IInv, TypeOK, Insert
<1>2. entries'[count] = v /\ \A i \in 0 .. (count - 1) : entries'[i] = entries[i]
  BY <1>1, HeapAssumption DEF IInv, TypeOK, Insert, Slots
<1>3. Contents' = Contents \cup {v}
  BY <1>1, <1>2 DEF Contents
<1>4. Abstract!Cardinality(Contents) = Cardinality(Contents)
  BY DEF Abstract!Cardinality, Cardinality
<1> QED
  BY <1>1, <1>3, <1>4, ContentsCounted DEF Insert, Abstract!Insert

LEMMA ExtractRefines ==
  ASSUME IInv, Extract
  PROVE  Abstract!Extract
<1>1. count \in Nat /\ count > 0 /\ count' = count - 1 /\ pc = "idle"
  BY HeapAssumption DEF IInv, TypeOK, Extract
<1>2. /\ entries'[0] = entries[count - 1]
      /\ \A i \in 1 .. (count - 1) : entries'[i] = entries[i]
  BY <1>1, HeapAssumption DEF IInv, TypeOK, Extract, Slots
<1>3. entries[0] \in Contents
  BY <1>1 DEF Contents
<1>4. \A u \in Contents : Place[u] <= Place[entries[0]]
  BY <1>1, RootDominates DEF IInv, Ordered, Contents, AtMost
<1>5. Contents' = Contents \ {entries[0]}
  <2>1. ASSUME NEW x \in Contents, x # entries[0] PROVE x \in Contents'
    <3>1. PICK i \in 1 .. (count - 1) : x = entries[i]
      BY <1>1, <2>1 DEF Contents
    <3>2. CASE i = count - 1
      BY <1>1, <1>2, <3>1, <3>2 DEF Contents
    <3>3. CASE i # count - 1
      BY <1>1, <1>2, <3>1, <3>3 DEF Contents
    <3> QED
      BY <3>2, <3>3
  <2>2. ASSUME NEW x \in Contents' PROVE x \in Contents /\ x # entries[0]
    <3>1. PICK i \in 0 .. (count - 2) : x = entries'[i]
      BY <1>1, <2>2 DEF Contents
    <3>2. CASE i = 0
      BY <1>1, <1>2, <3>1, <3>2 DEF IInv, Distinct, Used, Contents
    <3>3. CASE i # 0
      BY <1>1, <1>2, <3>1, <3>3 DEF IInv, Distinct, Used, Contents
    <3> QED
      BY <3>2, <3>3
  <2> QED
    BY <2>1, <2>2
<1>6. taken' = entries[0]
  BY DEF Extract
<1> QED
  BY <1>3, <1>4, <1>5, <1>6 DEF Abstract!Extract

LEMMA StepRefines ==
  IInv /\ [Next]_vars => [Abstract!Next]_(Abstract!worstFirstVars)
<1> SUFFICES ASSUME IInv, [Next]_vars
             PROVE  [Abstract!Next]_(Abstract!worstFirstVars)
  OBVIOUS
<1>1. CASE \E v \in Values : Insert(v)
  BY <1>1, InsertRefines DEF Abstract!Next
<1>2. CASE Extract
  BY <1>2, ExtractRefines DEF Abstract!Next
<1>3. CASE BubbleUp
  <2>1. idx \in 0 .. (count - 1) /\ Parent(idx) \in 0 .. (count - 1)
    <3>1. count \in Nat /\ idx \in Nat /\ idx > 0 /\ idx < count
      BY <1>3, HeapAssumption DEF IInv, TypeOK, Ordered, BubbleUp, Slots
    <3> QED
      BY <3>1, ParentBelow
  <2>2. Contents' = Contents
    BY <1>3, <2>1, SwapKeepsContents DEF IInv, BubbleUp
  <2> QED
    BY <1>3, <2>2 DEF BubbleUp, Abstract!worstFirstVars
<1>4. CASE SiftDown
  <2>1. idx \in 0 .. (count - 1) /\ WorseChild(idx) \in 0 .. (count - 1)
    <3>1. count \in Nat /\ idx \in Nat /\ WorseChild(idx) # idx
      BY <1>4, HeapAssumption DEF IInv, TypeOK, SiftDown, Settled, Slots
    <3>2. WorseChild(idx) \in 1 .. (count - 1) /\ idx < WorseChild(idx)
      BY <3>1, WorseChildOf DEF IInv
    <3> QED
      BY <3>1, <3>2
  <2>2. Contents' = Contents
    BY <1>4, <2>1, SwapKeepsContents DEF IInv, SiftDown
  <2> QED
    BY <1>4, <2>2 DEF SiftDown, Abstract!worstFirstVars
<1>5. CASE Inserted \/ Extracted \/ UNCHANGED vars
  BY <1>5 DEF Inserted, Extracted, vars, Contents, Abstract!worstFirstVars
<1> QED
  BY <1>1, <1>2, <1>3, <1>4, <1>5 DEF Next

\* Seen between operations, heap.c is a set from which a worst value is taken.
THEOREM Refinement == Spec => RefinesWorstFirst
<1>1. Spec => Abstract!Spec
  BY InitRefines, StepRefines, Invariance, PTL DEF Spec, Abstract!Spec
<1> QED
  BY <1>1 DEF RefinesWorstFirst
=============================================================================
