\* The shutdown race: one datum in a ring of one usable slot is enough.
SPECIFICATION Spec
CONSTANTS
  MaxLen = 2
  MaxRequests = 1
  MaxRetries = 0
INVARIANT
  NothingLeftBehind
