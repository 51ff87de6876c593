SPECIFICATION Spec
CONSTANTS
  Conn = {c1, c2}
  Exchange = {builtin, x1}
  Queue = {q1}
  Key = {k1}
  E2EKey = {k1}
  QArgs = {plain}
  builtinX = builtin
  BuiltinType <- MCBuiltin
  Nil = Nil
  MaxBindings = 1
  MaxFailures = 0
INVARIANT Acyclic
