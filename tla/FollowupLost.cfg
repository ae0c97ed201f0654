SPECIFICATION Spec
CONSTANTS
  m1 = m1
  m2 = m2
  m3 = m3
  Messages = {m1, m2, m3}
  Route <- MCRoute
  Auth <- MCAuth
  Settings <- CollectSettings
  DefaultCap = 3
  MaxClears = 0

INVARIANT AcceptedIsRunOrDropped
