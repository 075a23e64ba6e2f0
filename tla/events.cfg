SPECIFICATION Spec
CONSTANTS
  MaxPerTick = 2
  MaxEvents = 5
  MaxImmediates = 2
INVARIANTS
  TypeOK
  FlushUnderWay
  DrainedComplete
PROPERTIES
  PublishedInOrder
  DrainEnds
CHECK_DEADLOCK FALSE
