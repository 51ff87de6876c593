SPECIFICATION Spec
CONSTANTS
  mainQ = mainQ
  deadQ = deadQ
  Conn = {c1, c2}
  Queue = {mainQ}
  Nil = Nil
  Zero = Zero
  ChanOf <- MCSharedChan
  MaxLen <- MCMaxLen
  DLX <- MCNoDLX
  PriorityQ = {mainQ}
  TTLQ = {}
  Subscribed = {mainQ}
  Routes <- MCOneRoute
  Priority = {0, 1}
  MaxMsgs = 3
  MaxBypass = 0
SYMMETRY ConnSymmetry
INVARIANTS MaxLengthOvershoot PriorityOrder
