SPECIFICATION QFairSpec
CONSTANTS
  Node = {n1, n2}
  Running = {n1}
  Client = {k1, k2}
  Command = {m1, m2}
  None = None
  MaxTerm = 2
  MaxLog = 2
  MaxInFlight = 1
  MaxFired = 1
  MaxStopped = 0
  MaxAtOnce = 8
  MaxFailures = 1
CHECK_DEADLOCK FALSE
INVARIANTS QTypeOK LogIndexed PublishedIsQueued WaiterRegistered
PROPERTY PublishComesBack
