----------------------------- MODULE WorstFirst -----------------------------
(***************************************************************************)
(* What get_matches() wants of a heap: a set of at most `Capacity` values   *)
(* from which a worst one can be taken.                                     *)
(***************************************************************************)
EXTENDS Integers, FiniteSets

CONSTANTS
  Values,       \* what the heap may hold
  Capacity,     \* heap->capacity
  Place,        \* Place[v]: where the comparator sorts v; the greatest is the worst
  NoValue       \* NULL

VARIABLES
  contents,     \* the values held
  taken         \* the value last extracted

worstFirstVars == <<contents, taken>>

Init == contents = {} /\ taken = NoValue

Insert(v) ==
  /\ Cardinality(contents) < Capacity
  /\ v \notin contents
  /\ contents' = contents \cup {v}
  /\ UNCHANGED taken

Extract ==
  \E v \in contents :
    /\ \A u \in contents : Place[u] <= Place[v]
    /\ contents' = contents \ {v}
    /\ taken' = v

Next == Extract \/ \E v \in Values : Insert(v)

Spec == Init /\ [][Next]_worstFirstVars
=============================================================================
