------------------------------- MODULE MCHeap -------------------------------
(* Six values, two pairs of them equal to the comparator.                    *)
EXTENDS Heap

MCPlace == [v \in Values |-> (v + 1) \div 2 + (IF v = 6 THEN 1 ELSE 0)]
=============================================================================
