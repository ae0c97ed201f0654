SPECIFICATION Spec
CONSTANTS
  first = first
  again = again
  shared = shared
  Requests = {first, again}
  Ids = {shared}
  Id <- MCId
  Bindings = {"ls", "cat"}
  Binding <- MCBinding
  FallsBack = {first, again}
  InlineEval = {again}
  MaxCalls = 0

INVARIANT FallbackAllows
CHECK_DEADLOCK FALSE
