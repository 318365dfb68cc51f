SPECIFICATION Spec
CONSTANTS
  Finder <- MCFinder
  Item = {"a", "b", "c"}
  FallbackFound <- MCFallbackFound
  Query <- MCQuery
  Empty = ""
  BestLast = FALSE
  Fleeting <- MCFleeting
  Over = TRUE
  Fails = FALSE
  Shows = 2
INVARIANTS
  OverrideIsTemporary
