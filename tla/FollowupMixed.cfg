SPECIFICATION Spec
CONSTANTS
  m1 = m1
  m2 = m2
  m3 = m3
  Messages = {m1, m2, m3}
  Route <- MCRoute
  Auth <- MCAuth
  Settings <- MixedSettings
  DefaultCap = 3
  MaxClears = 1

INVARIANTS TypeOK AcceptedIsKept RunsAtMostOnce RunsInOrder TurnsDoNotMixTargets

