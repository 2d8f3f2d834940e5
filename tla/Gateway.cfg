CONSTANTS
  t1 = t1
  t2 = t2
  MayBe <- MCMayBe
  Threads = {t1, t2}
  MaxRuns = 3
  MaxSessions = 2
  MaxNumber = 4
  MaxPosts = 4
  Noise = {3}
  MaxEvents = 2
  MaxResume = 1
  NoFile = NoFile
  Torn = Torn
SPECIFICATION FairSpec
INVARIANTS IngestedOnce NothingSkipped CountsWhatWasIngested WithinLimits
PROPERTIES ListenersEnd
CHECK_DEADLOCK FALSE
