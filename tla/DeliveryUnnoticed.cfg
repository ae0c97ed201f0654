SPECIFICATION Spec
CONSTANTS
  d1 = d1
  d2 = d2
  key = key
  Deliveries = {d1, d2}
  BestEffort = {d2}
  Reporting = {d2}
  DrainKeys = {key}
  Matches <- MCMatches
  MaxRetries = 2
  MaxCrashes = 1

INVARIANT CompleteOrKept
