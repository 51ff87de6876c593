SPECIFICATION ServerFairSpec
CONSTANTS
  Client = {c1, c2}
  Loop = {plain}
  LimitOf <- MCTwoEdits
  Invalid = {1}
  Removable = {1}
  None = None
CHECK_DEADLOCK FALSE
INVARIANT ShutdownWaits
PROPERTIES EditInForce ShutdownEnds
