----------------------------- MODULE Candidate -----------------------------
(***************************************************************************)
(* One candidate's life in a matcher: it is scored again as the user types  *)
(* and deletes, and keeps the bitmask computed the first time.  The query   *)
(* is normalised as commandt_matcher_run does before it is scored.          *)
(***************************************************************************)
EXTENDS Score

CONSTANTS
  Candidates,   \* the candidate texts
  Keys,         \* the characters the user may type
  MaxQuery,     \* the longest query: bounds the model
  Options       \* the combinations of options considered

ASSUME OptionsAssumption ==
  /\ MaxQuery \in Nat
  /\ Options \subseteq [ignoreCase: BOOLEAN, smartCase: BOOLEAN, ignoreSpaces: BOOLEAN,
                        dots: DotModes]

ASSUME TextAssumption == Candidates \subseteq Seq(STRING) /\ Keys \subseteq STRING

\* No share of a score is rounded to 0, as none of the code's floats is.
ASSUME FineScale == \A h \in Candidates : Scale >= 5 * MaxQuery * Len(h)

VARIABLES
  text,         \* haystack->candidate
  options,      \* the matcher's options
  query,        \* what the user has typed
  bitmask,      \* haystack->bitmask
  score         \* haystack->score, as the last run left it

vars == <<text, options, query, bitmask, score>>

HasUpper(q) == \E i \in DOMAIN q : q[i] \in Upper

\* Whether this run ignores case: smart case does not once the query has a capital.
IgnoreCase(q) == options.ignoreCase /\ ~ (options.smartCase /\ HasUpper(q))

\* What is left of s without its spaces.
Spaceless(s) ==
  LET kept[i \in 0 .. Len(s)] ==
        IF i = 0 THEN <<>>
        ELSE IF s[i] = " " THEN kept[i - 1] ELSE Append(kept[i - 1], s[i])
  IN  kept[Len(s)]

\* The needle made of the query: lines 106-140.
Needle(q) ==
  LET cased == IF options.ignoreCase /\ ~ options.smartCase
               THEN [i \in DOMAIN q |-> LowerOf(q[i])] ELSE q
  IN  IF options.ignoreSpaces THEN Spaceless(cased) ELSE cased

Junk == SUBSET Letters

\* The mask after a run: computed when it was unset and the needle is not empty.
NextMasks(n) ==
  IF bitmask # UnsetMask \/ n = <<>> THEN {bitmask}
  ELSE { HaystackMask(text, junk) : junk \in Junk }

Run(q) ==
  /\ query' = q
  /\ score' = ScoreWith(text, Needle(q), IgnoreCase(q), options.dots, bitmask)
  /\ bitmask' \in NextMasks(Needle(q))
  /\ UNCHANGED <<text, options>>

Init ==
  /\ text \in Candidates
  /\ options \in Options
  /\ query = <<>>
  /\ bitmask = UnsetMask
  /\ score = ScoreWith(text, <<>>, TRUE, options.dots, UnsetMask)

Type(c) == Len(query) < MaxQuery /\ Run(Append(query, c))

Delete == query # <<>> /\ Run(SubSeq(query, 1, Len(query) - 1))

Clear == Len(query) > 1 /\ Run(<<>>)

Next == Delete \/ Clear \/ \E c \in Keys : Type(c)

Spec == Init /\ [][Next]_vars

-----------------------------------------------------------------------------

TypeOK ==
  /\ text \in Candidates
  /\ options \in Options
  /\ query \in Seq(Keys) /\ Len(query) <= MaxQuery
  /\ bitmask = UnsetMask \/ bitmask \subseteq Letters
  /\ score \in -Scale .. Scale

Matches(h, n, ignoreCase) ==
  \E f \in [DOMAIN n -> DOMAIN h] :
    /\ \A i, k \in DOMAIN n : i < k => f[i] < f[k]
    /\ \A i \in DOMAIN n : Fold(h[f[i]], ignoreCase) = n[i]

\* No score passes the bound a candidate is pruned by (matcher.c:358-381), or the prune
\* would drop candidates that belong in the answer.
WithinBound ==
  LET n == Needle(query) IN n # <<>> => score <= UpperBound(text, n)

\* The bitmask filter is invisible: with any mask the candidate may have been left with,
\* it scores what it would score the first time (score.c:145-150).
FilterInvisible ==
  score = ScoreWith(text, Needle(query), IgnoreCase(query), options.dots, UnsetMask)

\* A candidate that scores above 0 has the needle's characters in order; and when dot-files
\* are always shown, every candidate that has them scores above 0.
ScoresMatches ==
  LET n == Needle(query)
      found == Matches(text, n, IgnoreCase(query))
  IN  /\ n # <<>> /\ score > 0 => found
      /\ n # <<>> /\ found /\ options.dots = "always" => score > 0

\* matcher.c:353-354, "it didn't match last time and it can't match this time either":
\* a candidate that scores 0 goes on scoring 0 while the user types on.
Narrowing ==
  [][Len(query') > Len(query) /\ score = 0 => score' = 0]_vars

\* It holds where dot-files are always shown.
NarrowingWhenShown ==
  [][options.dots = "always" /\ Len(query') > Len(query) /\ score = 0 => score' = 0]_vars

\* doc/command-t.txt:589: never_show_dot_files never shows dot-files, "under any
\* circumstances".
NeverShown ==
  options.dots = "never" /\ HasHidden(text) => score <= 0
=============================================================================
