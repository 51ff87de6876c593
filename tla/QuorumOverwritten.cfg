SPECIFICATION QSpec
CONSTANTS
  Node = {n1, n2, n3}
  Running = {n1, n2}
  Client = {k1, k2}
  Command = {m1, m2}
  None = None
  MaxTerm = 3
  MaxLog = 1
  MaxInFlight = 2
  MaxFired = 0
  MaxStopped = 0
  MaxAtOnce = 3
  MaxFailures = 0
CHECK_DEADLOCK FALSE
INVARIANT PublishedIsQueued
