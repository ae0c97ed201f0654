SPECIFICATION FairSpec
CONSTANTS
  l1 = l1
  l2 = l2
  e1 = e1
  e2 = e2
  e3 = e3
  Lanes <- MCLanes
  Entries <- MCEntries
  Waiters = {w1}
  Limits <- MCLimits
  MaxGeneration = 1
INVARIANTS TypeOK QueuesHoldTheQueued ActiveAreCurrent WorkConserving NoMissedWakeup DrainedIsTrue
PROPERTIES StartsInOrderAndWithinLimit AcceptedIsSettled
