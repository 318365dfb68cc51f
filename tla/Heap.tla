-------------------------------- MODULE Heap --------------------------------
(***************************************************************************)
(* lib/heap.c: a binary heap in an array, the worst entry at the root.  One *)
(* step of the model is one turn of the loop in heap_insert() or one call   *)
(* of the recursive heap_heapify().  The only caller, get_matches(), never  *)
(* inserts a value the heap already holds.                                  *)
(***************************************************************************)
EXTENDS Integers, FiniteSets

CONSTANTS
  Values,       \* the haystacks
  Capacity,     \* heap->capacity
  Place,        \* comparator(a, b) > 0 iff Place[a] > Place[b]
  NoValue       \* NULL

ASSUME HeapAssumption ==
  /\ Capacity \in Nat \ {0}
  /\ Place \in [Values -> Int]
  /\ NoValue \notin Values

VARIABLES
  entries,      \* heap->entries; a slot past `count` keeps what was left in it
  count,        \* heap->count
  idx,          \* the index the loop or the recursion is at
  pc,           \* "idle", "bubbling" (heap_insert) or "sifting" (heap_heapify)
  taken         \* what heap_extract() last returned

vars == <<entries, count, idx, pc, taken>>

Slots == 0 .. (Capacity - 1)

\* HEAP_PARENT, HEAP_LEFT and HEAP_RIGHT.  C divides the unsigned index - 1 = 2^32 - 1 of
\* the root too, and does not use the result.
Parent(i) == (i - 1) \div 2
Left(i) == 2 * i + 1
Right(i) == 2 * i + 2

\* heap_property(): the comparator puts the parent strictly after the child.
Property(parent, child) == Place[entries[parent]] > Place[entries[child]]

\* Mutant: the better child moves up.
BetterChild(i) ==
  IF Right(i) < count
  THEN IF Place[entries[Left(i)]] > Place[entries[Right(i)]] THEN Right(i) ELSE Left(i)
  ELSE IF Left(i) < count THEN Left(i) ELSE i

\* The child heap_heapify() compares i with: the worse one, i itself if it has none.
WorseChild(i) ==
  IF Right(i) < count
  THEN IF Place[entries[Left(i)]] > Place[entries[Right(i)]] THEN Left(i) ELSE Right(i)
  ELSE IF Left(i) < count THEN Left(i) ELSE i

\* Mutant: a swap without its last assignment.
HalfSwapped(i, j) == [entries EXCEPT ![i] = entries[j]]

Swapped(i, j) == [entries EXCEPT ![i] = entries[j], ![j] = entries[i]]

Contents == { entries[i] : i \in 0 .. (count - 1) }

Init ==
  /\ entries = [i \in Slots |-> NoValue]
  /\ count = 0
  /\ idx = 0
  /\ pc = "idle"
  /\ taken = NoValue

\* Mutant: no check of the capacity.
InsertUnchecked(v) ==
  /\ pc = "idle"
  /\ v \notin Contents
  /\ entries' = [entries EXCEPT ![count] = v]
  /\ count' = count + 1
  /\ idx' = count
  /\ pc' = "bubbling"
  /\ UNCHANGED taken

\* heap_insert() up to its loop; at capacity it returns at once.
Insert(v) ==
  /\ pc = "idle"
  /\ v \notin Contents
  /\ count < Capacity
  /\ entries' = [entries EXCEPT ![count] = v]
  /\ count' = count + 1
  /\ idx' = count
  /\ pc' = "bubbling"
  /\ UNCHANGED taken

BubbleUp ==
  /\ pc = "bubbling"
  /\ idx > 0
  /\ ~ Property(Parent(idx), idx)
  /\ entries' = Swapped(idx, Parent(idx))
  /\ idx' = Parent(idx)
  /\ UNCHANGED <<count, pc, taken>>

Inserted ==
  /\ pc = "bubbling"
  /\ idx > 0 => Property(Parent(idx), idx)
  /\ pc' = "idle"
  /\ UNCHANGED <<entries, count, idx, taken>>

\* heap_extract() up to heap_heapify(heap, 0); an empty heap returns NULL at once.
Extract ==
  /\ pc = "idle"
  /\ count > 0
  /\ taken' = entries[0]
  /\ entries' = [entries EXCEPT ![0] = entries[count - 1]]
  /\ count' = count - 1
  /\ idx' = 0
  /\ pc' = "sifting"

Settled == WorseChild(idx) = idx \/ Property(idx, WorseChild(idx))

SiftDown ==
  /\ pc = "sifting"
  /\ ~ Settled
  /\ entries' = Swapped(idx, WorseChild(idx))
  /\ idx' = WorseChild(idx)
  /\ UNCHANGED <<count, pc, taken>>

Extracted ==
  /\ pc = "sifting"
  /\ Settled
  /\ pc' = "idle"
  /\ UNCHANGED <<entries, count, idx, taken>>

Next ==
  \/ \E v \in Values : Insert(v)
  \/ BubbleUp
  \/ Inserted
  \/ Extract
  \/ SiftDown
  \/ Extracted

Spec == Init /\ [][Next]_vars

-----------------------------------------------------------------------------

TypeOK ==
  /\ entries \in [Slots -> Values \cup {NoValue}]
  /\ count \in 0 .. Capacity
  /\ idx \in Slots
  /\ pc \in {"idle", "bubbling", "sifting"}
  /\ taken \in Values \cup {NoValue}
  /\ \A i \in 0 .. (count - 1) : entries[i] \in Values

\* No value is lost or doubled by the swaps: the first `count` slots differ.
NoDuplicates ==
  \A i, j \in 0 .. (count - 1) : i # j => entries[i] # entries[j]

\* Between operations no entry is worse than its parent (the strict heap_property() of the
\* code would ask more: equal entries stay where they are).
HeapOrdered ==
  pc = "idle" =>
    \A i \in 1 .. (count - 1) : Place[entries[i]] <= Place[entries[Parent(i)]]

\* HEAP_PEEK(heap)->score is the threshold of matcher.c:370 and :391: it must be the worst
\* score held, whatever inserts and extracts came before.
RootIsWorst ==
  pc = "idle" =>
    \A i \in 0 .. (count - 1) : Place[entries[i]] <= Place[entries[0]]

Abstract == INSTANCE WorstFirst WITH contents <- Contents

\* heap.c implements the set from which a worst value is taken.
RefinesWorstFirst == Abstract!Spec
=============================================================================
