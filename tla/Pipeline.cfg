SPECIFICATION FairSpec
CONSTANTS
  i3 = i3
  Item = {i1, i2, i3}
  ExchangeOf <- MCExchangeOf
  Worker = {w1, w2}
  Flusher = {f1}
  BatchSize = 2
  InputBuffer = 1
CHECK_DEADLOCK FALSE
INVARIANTS InFlightCounts FlushSound StopDrains
PROPERTIES ImplementsWorkBag SentIsPublished StopReturns
