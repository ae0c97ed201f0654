SPECIFICATION FairLoopSpec
CONSTANTS
  l1 = l1
  e1 = e1
  e2 = e2
  e3 = e3
  d = d
  Lanes = {l1}
  Entries = {e1, e2, e3}
  Waiters = {d}
  Drain = d
  AgentTasks = {e1}
  Hung = {e1}
  Limits = {0}
  MaxGeneration = 1
  RespawnModes = {"spawned", "disabled"}
INVARIANTS LoopTypeOK LockFreeForSuccessor
PROPERTIES QueuedWorkOutlivesHungTask ShutdownResolves TeardownAfterDrain
