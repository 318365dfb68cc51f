SPECIFICATION Spec
CONSTANTS
  Finder <- MCFinder
  Item = {"a", "b", "c"}
  FallbackFound <- MCFallbackFound
  Query <- MCQuery
  Empty = ""
  BestLast = TRUE
  Fleeting <- MCFleeting
  Over = FALSE
  Fails = TRUE
  Shows = 2
INVARIANTS
  TypeOK
  AllOrNothing
  SettingsRestored
  DirectoryRestored
PROPERTIES
  OpensWhatIsLit
