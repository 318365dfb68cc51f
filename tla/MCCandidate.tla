---------------------------- MODULE MCCandidate ----------------------------
(* A candidate is any text of up to MaxText characters of Alphabet.          *)
EXTENDS Candidate

CONSTANTS Alphabet, MaxText

MCLower == [c \in Upper |-> "b"]

MCCandidates == UNION { [1 .. k -> Alphabet] : k \in 0 .. MaxText }

Option(ignoreCase, smartCase, ignoreSpaces, dots) ==
  [ignoreCase |-> ignoreCase, smartCase |-> smartCase, ignoreSpaces |-> ignoreSpaces,
   dots |-> dots]

\* The defaults; the two dot options; case rules without smart case, spaces kept.
MCOptions == { Option(TRUE, TRUE, TRUE, "default"),
               Option(TRUE, TRUE, TRUE, "never"),
               Option(TRUE, FALSE, FALSE, "always"),
               Option(FALSE, FALSE, TRUE, "always") }

MCDefaults == { Option(TRUE, TRUE, TRUE, "default") }

MCNever == { Option(TRUE, TRUE, TRUE, "never") }
=============================================================================
