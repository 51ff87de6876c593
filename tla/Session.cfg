SPECIFICATION Spec
CONSTANTS
  c1 = c1
  c2 = c2
  q1 = q1
  q2 = q2
  g = g
  None = None
  Conn = {c1, c2}
  Modal = {c1}
  Queue = {q1, q2}
  Group = {g}
  ChanNo <- MCChanNo
  Offer <- MCOffer
  Unroutable = {2}
  MaxSize = 2
  MaxMsgs = 2
  MaxSubs = 3
  IdxMod = 2
INVARIANTS TypeOK IndexesAgree TxIsolation ConfirmsInOrder
CHECK_DEADLOCK FALSE
