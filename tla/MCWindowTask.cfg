\* Windows of three data, a step of two, counts modulo four: results come
\* after 3, 5 and 7 data, ReduceFlight's after 5, and its counts wrap.
SPECIFICATION Spec
CONSTANTS
  Key = {1, 2}
  Value = {1, 2}
  Category = {2}
  Window = 3
  Step = 2
  CountMod = 4
  MaxData = 7
INVARIANTS
  TypeOK
  WindowHoldsLast
  OnSchedule
  NothingSkipped
  ResultsOfLastWindow
  GroupCounts
