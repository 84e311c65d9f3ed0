SPECIFICATION FairSpec
CONSTANTS
  Urls = {"here", "there"}
  N = 1
  MaxRuns = 2
  MaxAnswers = 2
INVARIANTS
  ShownEndIsReal
  NoRunIsLeftBehind
PROPERTIES
  ShownRunMovesForward
  ShownRunGetsItsEnd
