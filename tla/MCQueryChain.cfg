\* The second call reads what the first one wrote.
SPECIFICATION Spec
CONSTANTS
  RunMod = 3
  Later <- MCLater
  MaxRuns = 2
  MaxFurther = 1
  MaxCommands = 2
  MaxRows = 1
INVARIANT NothingLostBetweenQueries
CHECK_DEADLOCK FALSE
