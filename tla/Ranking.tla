------------------------------ MODULE Ranking ------------------------------
(***************************************************************************)
(* The two orders the matcher puts candidates in, and what qsort() followed *)
(* by the copy loop of commandt_matcher_run() returns: the first `Limit`    *)
(* candidates of a set, in one of those orders.                             *)
(***************************************************************************)
EXTENDS Integers, FiniteSets, Sequences

CONSTANTS
  Haystacks,    \* the candidates, by their index in matcher->haystacks
  Limit,        \* the most candidates a run returns
  Rank,         \* Rank[c]: the place of c's text in byte order (equal texts share it)
  Needles,      \* the queries, as normalised by commandt_matcher_run
  Alphabetic,   \* those that are "" or "."
  ScoreOf       \* ScoreOf[n][c]: what commandt_score() gives candidate c for n

\* cmp_alpha(): byte order of the candidates' text.
AlphaBefore(a, b) == Rank[a] < Rank[b]

\* cmp_score() over the scores `s`: higher scores first, text order between equals.
ScoreBefore(s, a, b) ==
  \/ s[a] > s[b]
  \/ s[a] = s[b] /\ AlphaBefore(a, b)

\* The comparator the final qsort() is given for needle n.
Precedes(n, s, a, b) ==
  IF n \in Alphabetic THEN AlphaBefore(a, b) ELSE ScoreBefore(s, a, b)

\* How many of the set P fit a result.
Fits(P) == IF Cardinality(P) < Limit THEN Cardinality(P) ELSE Limit

\* r lists Fits(P) distinct members of P, in order, and leaves out none that
\* belongs before one it lists (equals come in any order: qsort is not stable).
IsFirstOf(r, P, n, s) ==
  /\ \A i, j \in DOMAIN r : i < j => r[i] # r[j] /\ ~ Precedes(n, s, r[j], r[i])
  /\ \A c \in P, i \in DOMAIN r :
       Precedes(n, s, c, r[i]) => \E j \in DOMAIN r : r[j] = c

FirstOf(P, n, s) == { r \in [1 .. Fits(P) -> P] : IsFirstOf(r, P, n, s) }

Matching(n) == { c \in Haystacks : ScoreOf[n][c] > 0 }

\* The right answers to n: more than one only if candidates have equal text.
BestAnswers(n) == FirstOf(Matching(n), n, ScoreOf[n])
=============================================================================
