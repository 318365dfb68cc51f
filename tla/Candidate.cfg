SPECIFICATION Spec
CONSTANTS
  Scale = 1728000
  Upper = {"B"}
  Letters = {"a", "b"}
  Digits = {"1"}
  Lower <- MCLower
  Alphabet = {"a", "b", "B", ".", "/"}
  MaxText = 4
  Candidates <- MCCandidates
  Keys = {"a", "b", "B", ".", " "}
  MaxQuery = 3
  Options <- MCOptions
INVARIANTS TypeOK WithinBound FilterInvisible ScoresMatches
PROPERTY NarrowingWhenShown
