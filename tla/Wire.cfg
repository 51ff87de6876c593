SPECIFICATION Spec
CONSTANTS
  MaxDepth = 1
  Dot = 46
  Star = 42
  Hash = 35
  XMatch <- MCXMatch
  AnyMode <- MCAnyMode
  Scripts <- MCScripts
  Requests <- MCRequests
  Messages <- MCMessages
  OpenChannel = {1}
  MaxSize = 80
  BufSize = 56
  MaxCalls = 2
CHECK_DEADLOCK FALSE
INVARIANTS CallsBindAsAsked RoutedAsDefined
PROPERTY FramesRead
