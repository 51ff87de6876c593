SPECIFICATION Spec
CONSTANTS
  mainQ = mainQ
  deadQ = deadQ
  Conn = {c1, c2}
  Queue = {mainQ, deadQ}
  Nil = Nil
  Zero = Zero
  ChanOf <- MCChanOf
  MaxLen <- MCMaxLen
  DLX <- MCDLX
  PriorityQ = {}
  TTLQ = {mainQ}
  Subscribed = {}
  Routes <- MCRoutes
  Priority = {0}
  MaxMsgs = 2
  MaxBypass = 1
SYMMETRY ConnSymmetry
INVARIANT UnackedTracked
