SPECIFICATION FairSpec
CONSTANTS
  Chan = {1}
  Proposal = {0}
  Heartbeat = 1
  SendBuffer = 1
CHECK_DEADLOCK FALSE
PROPERTY SilentIsAlwaysClosed
