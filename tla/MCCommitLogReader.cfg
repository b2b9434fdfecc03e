CONSTANTS
  History = 4
  Count = {1, 2}
  MaxChunk = 3
  GitMayFail = TRUE
SPECIFICATION Spec
CHECK_DEADLOCK FALSE
INVARIANT TypeOK
PROPERTIES PagerSpec AbortKillsGit AbortSettlesPage
