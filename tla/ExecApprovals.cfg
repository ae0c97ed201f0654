SPECIFICATION FairSpec
CONSTANTS
  first = first
  again = again
  shared = shared
  Requests = {first, again}
  Ids = {shared}
  Id <- MCId
  Bindings = {"ls", "cat"}
  Binding <- MCBinding
  FallsBack = {first, again}
  InlineEval = {again}
  MaxCalls = 2

INVARIANTS TypeOK ForwardedAsDecided
PROPERTY RequestsEnd
CHECK_DEADLOCK FALSE
