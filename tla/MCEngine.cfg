\* Two stages, rings of one slot: every push can find its ring full, any ECALL
\* can fail, and the creation of either enclave.
SPECIFICATION FairSpec
CONSTANTS
  NStages = 2
  Capacity = 1
  MaxRecords = 2
  MaxEmit = 1
  SourceAt = 3
  CreateMayFail = TRUE
  ECallMayFail = TRUE
INVARIANTS
  TypeOK
  StopFollowsProducer
  EnclaveAlive
  NothingOutlivesStart
  InOrder
  IInv
PROPERTIES
  EndIsLast
  Termination
  RingsAreChannels
