\* One window of Query5_MaxBatch is enough.
SPECIFICATION Spec
CONSTANTS
  Key = {1}
  Value = {1, 2}
  Category = {}
  Window = 2
  Step = 1
  CountMod = 4
  MaxData = 2
INVARIANT
  BatchMaximum
