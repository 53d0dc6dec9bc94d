\* The crypto engine's order (source first): the source runs ahead of a stage
\* that does not exist yet or is lost, and the stage's callbacks emit more than
\* the ring after it can hold; only the consumers are fair.
SPECIFICATION ConsumerSpec
CONSTANTS
  NStages = 1
  Capacity = 2
  MaxRecords = 3
  MaxEmit = 2
  SourceAt = 0
  CreateMayFail = FALSE
  ECallMayFail = TRUE
PROPERTIES
  Flow
