SPECIFICATION Spec
CONSTANTS
  Walkers = {ana}
  NoRow = NoRow
  Rows <- MCRows
  Fact <- MCFact
  Edited = {1, 2, 11, 12}
  Scripts <- MCScripts
  Horizon = 2
INVARIANT NothingMissed
PROPERTY ImplementsWalk
CHECK_DEADLOCK FALSE
