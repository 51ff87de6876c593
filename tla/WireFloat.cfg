SPECIFICATION Spec
CONSTANTS
  MaxDepth = 1
  Dot = 46
  Star = 42
  Hash = 35
  XMatch <- MCXMatch
  AnyMode <- MCAnyMode
  Scripts <- MCNoClient
  Requests <- MCFraction
  Messages <- MCNone
  OpenChannel = {1}
  MaxSize = 80
  BufSize = 56
  MaxCalls = 1
CHECK_DEADLOCK FALSE
INVARIANT FloatsBindAsAsked
