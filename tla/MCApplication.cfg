\* Two calls of the program.  The first has no run, one, or -1 of them, which is
\* the greatest number modulo 3 and never ends, and up to two words too many.
\* The second has one run at most, and may read what the first one wrote.
SPECIFICATION Spec
CONSTANTS
  RunMod = 3
  Later <- MCLater
  MaxRuns = 2
  MaxFurther = 2
  MaxCommands = 2
  MaxRows = 1
INVARIANTS
  AsUsageSays
  EachRunOnItsOwn
  WiredToItsTask
CHECK_DEADLOCK FALSE
