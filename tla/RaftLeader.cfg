SPECIFICATION Spec
CONSTANTS
  Node = {n1, n2, n3}
  Command = {c1}
  None = None
  MaxTerm = 2
  MaxLog = 1
  MaxInFlight = 2
  MaxFired = 1
  MaxStopped = 0
  MaxAtOnce = 2
  MaxFailures = 1
SYMMETRY NodeSymmetry
CHECK_DEADLOCK FALSE
INVARIANT LeaderWonItsTerm
