SPECIFICATION Spec
CONSTANTS
  session = session
  Restarts = 1
  Targets = {session}
  Asked <- MCAsked
  MaxRequests = 1

INVARIANT EnabledMeansOn
