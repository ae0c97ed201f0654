SPECIFICATION FairSpec
CONSTANTS
  every = every
  at = at
  client = client
  Recurring = {every}
  OneShots = {at}
  Calls = {client}
  MaxConcurrent = 1
  MaxMissed = 1
  MaxCrashes = 1
  MaxEdits = 2

INVARIANTS TypeOK OneRunPerJob SlotsAreKept
PROPERTIES SlotRunsOnce DueJobsRun
CHECK_DEADLOCK FALSE
