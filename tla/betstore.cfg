SPECIFICATION Spec
CONSTANTS
  Keys = {k1, k2, k3}
  RoundIds = {r1, r2}
  NoCommand = none
  MaxBets = 5
INVARIANTS
  MapsAgree
PROPERTIES
  StoreIsBetSet
CHECK_DEADLOCK FALSE
