SPECIFICATION Spec
CONSTANTS
  every = every
  at = at
  client = client
  Recurring = {every}
  OneShots = {at}
  Calls = {client}
  MaxConcurrent = 1
  MaxMissed = 1
  MaxCrashes = 1
  MaxEdits = 0

PROPERTY OneShotsNotRetried
CHECK_DEADLOCK FALSE
