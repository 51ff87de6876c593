SPECIFICATION FairSpec
CONSTANTS
  Chan = {1, 2}
  Proposal = {0, 1, 3}
  Heartbeat = 2
  SendBuffer = 2
CHECK_DEADLOCK FALSE
INVARIANTS TypeOK OneCloser
PROPERTIES DoneIsReleased GoneIsForgotten SilentIsClosed
