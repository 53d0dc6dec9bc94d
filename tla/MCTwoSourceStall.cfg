\* Only the responder is fair: a source may stall with its ring empty; the
\* enclave may not exist, and its ECALL can fail at any moment.
SPECIFICATION ResponderSpec
CONSTANTS
  Capacity = 2
  MaxRecords = 2
  MaxEmit = 0
  CreateMayFail = TRUE
  ECallMayFail = TRUE
PROPERTIES
  NoSideStarves
