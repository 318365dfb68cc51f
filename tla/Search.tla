------------------------------- MODULE Search -------------------------------
(***************************************************************************)
(* What a matcher promises its caller, with no history, no threads and no   *)
(* heap: a query, once asked, is answered with the best `Limit` candidates  *)
(* that match it, whatever was asked before.                                *)
(***************************************************************************)
EXTENDS Ranking

CONSTANT
  NoNeedle      \* "no query": the NULL of matcher->last_needle

VARIABLES
  pending,      \* the query being answered, NoNeedle when there is none
  answer        \* the last answer: its query and the candidates, best first

searchVars == <<pending, answer>>

Init ==
  /\ pending = NoNeedle
  /\ answer = [needle |-> NoNeedle, matches |-> <<>>]

Ask(n) ==
  /\ pending = NoNeedle
  /\ pending' = n
  /\ UNCHANGED answer

Answer ==
  /\ pending \in Needles
  /\ \E r \in BestAnswers(pending) : answer' = [needle |-> pending, matches |-> r]
  /\ pending' = NoNeedle

Next == Answer \/ \E n \in Needles : Ask(n)

Spec == Init /\ [][Next]_searchVars /\ WF_searchVars(Answer)
=============================================================================
