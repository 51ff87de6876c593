SPECIFICATION SSpec
CONSTANTS
  Conn = {c1}
  Exchange = {x1}
  Queue = {q1}
  Key = {k1}
  E2EKey = {}
  QArgs = {plain}
  BuiltinType <- MCNoBuiltin
  Nil = Nil
  MaxBindings = 1
  MaxFailures = 1
  RetainCount = 1
  MaxSnapshots = 2
SYMMETRY ConnSymmetry
INVARIANTS SnapshotKept SnapshotSound
