SPECIFICATION FairSpec
CONSTANTS
  session = session
  Restarts = 1
  Targets = {session}
  Asked <- MCAsked
  MaxRequests = 1

INVARIANTS TypeOK WakeIsKept OverlapOnlyAfterRestart HeartbeatGoesOn
PROPERTY WakesAreTaken
