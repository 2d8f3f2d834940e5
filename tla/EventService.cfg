CONSTANTS
  p1 = p1
  p2 = p2
  Procs = {p1, p2}
  MayBe <- MCMayBe
  Models = {p2}
  ModelTools = {"state_sync", "restart_app"}
  MemoryOf <- MCMemoryOf
  Sources <- MCSources
  MaxBatch <- MCMaxBatch
  Cycles = 2
  SeedLimit = 3
  Interval = 2
  Beside = {"replay"}
  Idle = Idle
  Done = Done
SPECIFICATION FairSpec
INVARIANTS ActedOnce EvidenceFirst OkIsComplete RecallIsGoverned CheckpointExact DroppedIsStored
PROPERTIES ProcessesEnd
CHECK_DEADLOCK FALSE
