SPECIFICATION Spec
CONSTANTS
  MaxPerWindow = 2
  WindowMs = 2
  Capacity = 3
  Parts = 2
  RefillParts = 1
  MaxTime = 5
  MaxMessages = 5
INVARIANTS
  BurstBounded
  BucketBounded
  RefusedWithCause
CHECK_DEADLOCK FALSE
