------------------------------- MODULE Score -------------------------------
(***************************************************************************)
(* lib/score.c: how well one candidate matches a needle.  Texts are         *)
(* sequences of characters; a score, a float in the code, is the exact      *)
(* number times `Scale`.  The search with its memo table is kept step by    *)
(* step, because what it returns depends on the order it fills the table.   *)
(***************************************************************************)
EXTENDS Integers, Sequences, FiniteSets

CONSTANTS
  Scale,        \* the integer that stands for 1.0: a multiple of every denominator met
  Upper,        \* the capital letters in use
  Lower,        \* Lower[c]: the small letter of a capital c
  Letters,      \* the small letters in use, each one bit of a mask
  Digits        \* the digits in use

ASSUME ScaleAssumption == Scale \in Nat \ {0}

ASSUME LetterAssumption ==
  /\ Letters \subseteq STRING /\ Upper \cap Letters = {}
  /\ Lower \in [Upper -> Letters]

\* Dot-file options: always_show_dot_files, never_show_dot_files or neither.
DotModes == {"always", "never", "default"}

LowerOf(c) == IF c \in Upper THEN Lower[c] ELSE c

\* The character of the haystack a needle's character is compared with.
Fold(c, ignoreCase) == IF ignoreCase THEN LowerOf(c) ELSE c

Greater(a, b) == IF a > b THEN a ELSE b

Unscored == -1     \* UNSET_SCORE in a memo cell: a score there is never negative
UnsetMask == {"unset"}    \* UNSET_BITMASK

\* Mutant: the mean of the two shares without its division by 2.
PerCharTwice(h, n) == (Scale * (Len(h) + Len(n))) \div (Len(h) * Len(n))

\* max_score_per_char
PerChar(h, n) == (Scale * (Len(h) + Len(n))) \div (2 * Len(h) * Len(n))

\* Mutant: the needle's share of max_score_per_char is left out.
UpperBoundShort(h, n) == IF Len(h) = 0 THEN Scale * 2 ELSE (Scale * Len(n)) \div (2 * Len(h))

\* The bound lines 361-373 of matcher.c put on the score, before the slack; an empty
\* candidate (line 362) is never skipped for it.
UpperBound(h, n) == IF Len(h) = 0 THEN Scale * 2 ELSE Len(n) * PerChar(h, n)

\* A dot that starts the text or follows a slash.
StartsHidden(h, j) == h[j] = "." /\ (j = 1 \/ h[j - 1] = "/")

HasHidden(h) == \E j \in DOMAIN h : StartsHidden(h, j)

-----------------------------------------------------------------------------
(***************************************************************************)
(* The pre-scan: the rightmost place of each needle character, found from   *)
(* the end of both texts.                                                   *)
(***************************************************************************)

\* The last place before `below` where h has the character c, or 0.
LastPlace(h, c, ignoreCase, below) ==
  LET at == { j \in 1 .. (below - 1) : Fold(h[j], ignoreCase) = c }
  IN  IF at = {} THEN 0 ELSE CHOOSE j \in at : \A k \in at : k <= j

\* Rightmost(...)[i], or 0 once a character has no place left.
Rightmost(h, n, ignoreCase) ==
  LET place[i \in 1 .. Len(n) + 1] ==
        IF i = Len(n) + 1 THEN Len(h) + 1 ELSE LastPlace(h, n[i], ignoreCase, place[i + 1])
  IN  place

\* calculate_bitmask() of matcher.c: one bit for each letter of the needle.
NeedleMask(n) == { LowerOf(n[i]) : i \in DOMAIN n } \cap Letters

\* Mutant: the characters before the first match are left out of the mask.
HaystackMaskOfTail(h, junk) ==
  LET chars == { LowerOf(h[j]) : j \in 2 .. Len(h) }
  IN  (chars \cap Letters) \cup (IF chars \subseteq Letters THEN {} ELSE junk)

\* The haystack's mask.  A character that is no letter is shifted by a negative or a large
\* amount (line 172), which C does not define: it sets any bits, those of `junk`.
HaystackMask(h, junk) ==
  LET chars == { LowerOf(h[j]) : j \in DOMAIN h }
  IN  (chars \cap Letters) \cup (IF chars \subseteq Letters THEN {} ELSE junk)

-----------------------------------------------------------------------------
(***************************************************************************)
(* recursive_match().  m: the haystack h, the needle n, the rightmost       *)
(* places r, the case rule and the dot mode.  The memo has a cell for each  *)
(* place j of h and character i of n.                                       *)
(***************************************************************************)

\* Mutant: the option to always show dot-files is not asked.
DotStopsEvenShown(m, j, c) ==
  /\ StartsHidden(m.h, j)
  /\ m.dots = "never" \/ c # "."

\* The dot at j stops the search for character c: lines 50-63.
DotStops(m, j, c) ==
  /\ StartsHidden(m.h, j)
  /\ m.dots = "never" \/ (c # "." /\ m.dots # "always")

\* Mutant: 0.75f / distance written as 3 / 4 / distance, which C takes for 0.
CharScoreTruncated(m, j, last) ==
  LET per == PerChar(m.h, m.n)
      before == m.h[j - 1]
  IN  IF j - last <= 1 THEN per
      ELSE IF before = "/" THEN (per * 9) \div 10
      ELSE IF before \in {"-", "_", " "} \cup Digits THEN (per * 4) \div 5
      ELSE IF before \in Letters /\ m.h[j] \in Upper THEN (per * 4) \div 5
      ELSE IF before = "." THEN (per * 7) \div 10
      ELSE 0

\* What a match at j is worth when the last one was at `last`: lines 73-96.
CharScore(m, j, last) ==
  LET per == PerChar(m.h, m.n)
      distance == j - last
      before == m.h[j - 1]
  IN  IF distance <= 1 THEN per
      ELSE IF before = "/" THEN (per * 9) \div 10
      ELSE IF before \in {"-", "_", " "} \cup Digits THEN (per * 4) \div 5
      ELSE IF before \in Letters /\ m.h[j] \in Upper THEN (per * 4) \div 5
      ELSE IF before = "." THEN (per * 7) \div 10
      ELSE (per * 3) \div (4 * distance)

\* A place in the two loops: needle character i and haystack place j, `from` (haystack_idx,
\* where the next needle character starts), `last` (last_idx), score, seen (seen_score)
\* and the memo as it is by then.
Memo(m) == [(1 .. m.r[Len(m.n)]) \X (1 .. Len(m.n)) -> Int]

Place(m) == [i : 1 .. Len(m.n) + 1, j : 1 .. Len(m.h) + 1, from : 1 .. Len(m.h) + 1,
             last : 1 .. Len(m.h), score : Int, seen : Int, memo : Memo(m)]

\* Where the search goes on from place c: at the next needle character, at the next place
\* of h, without the match at c (the call of line 99), with it.
NextCharacter(c) == [c EXCEPT !.i = c.i + 1, !.j = c.from]
NextPlace(c) == [c EXCEPT !.j = c.j + 1]
Skipping(c) == [c EXCEPT !.j = c.j + 1, !.from = c.j + 1, !.seen = 0]
Taking(c, score, seen, memo) ==
  [c EXCEPT !.j = c.j + 1, !.from = c.j + 1, !.last = c.j,
            !.score = score, !.seen = seen, !.memo = memo]

\* The value returned from place c on and the memo it leaves; match[d] is what comes of a
\* place d further on.
From(m, match, c) ==
  LET cell == <<c.j, c.i>>
  IN  IF c.i > Len(m.n) THEN [value |-> c.score, memo |-> c.memo]
      ELSE IF c.j > m.r[c.i] THEN match[NextCharacter(c)]
      ELSE IF DotStops(m, c.j, m.n[c.i]) THEN
        [value |-> 0,
         memo |-> IF c.memo[cell] = Unscored THEN [c.memo EXCEPT ![cell] = 0] ELSE c.memo]
      ELSE IF Fold(m.h[c.j], m.ignoreCase) # m.n[c.i] THEN match[NextPlace(c)]
      ELSE IF c.memo[cell] # Unscored THEN
        [value |-> Greater(c.memo[cell], c.seen), memo |-> c.memo]
      ELSE
        LET skipped == IF c.j < m.r[c.i] THEN match[Skipping(c)]
                       ELSE [value |-> 0, memo |-> c.memo]
            best == Greater(c.seen, skipped.value)
            taken == c.score + CharScore(m, c.j, c.last)
            cellValue == Greater(best, taken)
            left == [skipped.memo EXCEPT ![cell] = cellValue]
        IN  IF c.i = Len(m.n) THEN [value |-> cellValue, memo |-> left]
            ELSE match[Taking(c, taken, best, left)]

Match(m) ==
  LET match[c \in Place(m)] == From(m, match, c)
  IN  match[[i |-> 1, j |-> 1, from |-> 1, last |-> 1, score |-> 0, seen |-> 0,
             memo |-> [cell \in (1 .. m.r[Len(m.n)]) \X (1 .. Len(m.n)) |-> Unscored]]].value

MatchScore(h, n, ignoreCase, dots) ==
  LET r == Rightmost(h, n, ignoreCase)
  IN  IF r[1] = 0 THEN 0
      ELSE Match([h |-> h, n |-> n, r |-> r, ignoreCase |-> ignoreCase, dots |-> dots])

\* commandt_score() of a candidate whose mask is `mask`.
ScoreWith(h, n, ignoreCase, dots, mask) ==
  IF n = <<>> THEN IF dots # "always" /\ HasHidden(h) THEN -Scale ELSE Scale
  ELSE IF mask # UnsetMask /\ ~ (NeedleMask(n) \subseteq mask) THEN 0
  ELSE MatchScore(h, n, ignoreCase, dots)
=============================================================================
