\* Two records of each source, rings of one slot: either side can be full,
\* empty, slow or early; the enclave may not exist, and its ECALL can fail at any
\* moment.
SPECIFICATION FairSpec
CONSTANTS
  Capacity = 1
  MaxRecords = 2
  MaxEmit = 1
  CreateMayFail = TRUE
  ECallMayFail = TRUE
INVARIANTS
  IInv
  InOrder
  NothingOutlivesStart
PROPERTIES
  FlushOnceBothEnded
  Termination
  RingsAreChannels
