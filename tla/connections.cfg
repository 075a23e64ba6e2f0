SPECIFICATION Spec
CONSTANTS
  Requests = {r1, r2, r3}
  Players = {p1, p2}
  Operators = {op, other}
  OperatorId = op
  NoConnection = none
  Everybody = everybody
  MaxConnections = 2
  MaxCommands = 1
  MaxEvents = 1
SYMMETRY Symmetry
INVARIANTS
  TypeOK
  IndexInverse
  SocketsAccounted
PROPERTIES
  CommandsFromCurrentOnly
  DeliveredRight
CHECK_DEADLOCK FALSE
