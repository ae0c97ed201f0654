SPECIFICATION FairLanesSpec
CONSTANTS
  c1 = c1
  c2 = c2
  chat = chat
  home = home
  other = other
  Runs <- MCRuns
  SessionKey <- MCSessionKey
  LaneArg <- MCLaneArg
  ManualCron = {c1, c2}
  Entries <- MCEntries
  Lanes <- MCLanes
  Waiters = {}
  Limits = {2}
  MaxGeneration = 0

INVARIANT OneRunPerSession
PROPERTY AcceptedRunSettles
CHECK_DEADLOCK FALSE
