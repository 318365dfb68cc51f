SPECIFICATION Spec
CONSTANTS
  Haystacks <- MCHaystacks
  Count <- MCCount
  Limit = 2
  Rank <- MCRank
  Alphabetic <- MCAlphabetic
  Threads = 2
  MaxThreads = 128
  ThreadThreshold = 3
  ChunkSize = 2
  Needles <- MCNeedles
  Extends <- MCExtends
  ScoreOf <- MCScoreOf
  Bound <- MCBound
  NoNeedle = NoNeedle
  Unset = Unset
  Erase = FALSE
INVARIANTS TypeOK NoSharedHaystack AnswerIsBest SkippedCannotMatch
PROPERTY RefinesSearch
