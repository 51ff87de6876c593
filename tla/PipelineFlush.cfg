SPECIFICATION FairSpec
CONSTANTS
  i3 = i3
  Item = {i1}
  ExchangeOf <- MCExchangeOf
  Worker = {w1}
  Flusher = {f1}
  BatchSize = 1
  InputBuffer = 1
CHECK_DEADLOCK FALSE
PROPERTY FlushReturns
