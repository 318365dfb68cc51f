----------------------------- MODULE MCMatcher -----------------------------
(***************************************************************************)
(* A matcher over six real texts, two of them equal, and six queries the    *)
(* user moves between.  What the texts score is given as a table, which     *)
(* TableAssumption checks against module Score before each run.             *)
(***************************************************************************)
EXTENDS Matcher, SequencesExt

\* 1.0 is 480: enough for texts of three and queries of two characters.
S == INSTANCE Score WITH
  Scale <- 480, Upper <- {}, Lower <- <<>>, Letters <- {"a", "b", "c"}, Digits <- {}

Texts == << <<"a">>, <<"a", "b">>, <<".", "a">>, <<"b", "/", "a">>, <<"c", "a", "b">>, <<"a">> >>

MCHaystacks == 0 .. 5
MCCount == 6
TextOf(c) == Texts[c + 1]

\* The scores of the texts for each query, in the default dot mode and ignoring case.
Table ==
       <<>>         :> <<480, 480, -480, 480, 480, 480>>
  @@ <<".">>        :> <<  0,   0,  360,   0,   0,   0>>
  @@ <<"a">>        :> <<480, 360,    0, 288, 320, 480>>
  @@ <<"b">>        :> <<  0, 360,    0, 320, 120,   0>>
  @@ <<"a", "b">>   :> <<  0, 480,    0,   0, 400,   0>>
  @@ <<"b", "a">>   :> <<  0,   0,    0, 380,   0,   0>>

MCNeedles == DOMAIN Table

MCScoreOf == [n \in MCNeedles |-> [c \in MCHaystacks |-> Table[n][c + 1]]]

ASSUME TableAssumption ==
  \A n \in MCNeedles, c \in MCHaystacks :
    MCScoreOf[n][c] = S!ScoreWith(TextOf(c), n, TRUE, "default", S!UnsetMask)

\* The slack of 1.0e-4 is lost in the rounding: no bound here is close to a score above it.
MCBound == [n \in MCNeedles |-> [c \in MCHaystacks |->
              IF n = <<>> THEN 0 ELSE S!UpperBound(TextOf(c), n)]]

\* The byte order of the texts.
MCRank == [c \in MCHaystacks |-> CASE c = 2 -> 0 [] c \in {0, 5} -> 1 [] c = 1 -> 2
                                   [] c = 3 -> 3 [] c = 4 -> 4]

MCExtends(n, m) == IsPrefix(m, n)

MCAlphabetic == { <<>>, <<".">> }

\* The runs meet the conditions under which module AnswerProofs proves their properties.
ASSUME AnswerAssumption == ZeroStays /\ OneOrder
=============================================================================
