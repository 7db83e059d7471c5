\* The supported topology: one worker, and every way of queueing.
SPECIFICATION FairSpec
CONSTANTS
  Candidates = {c1}
  Kinds = {urlscan}
  Workers = {w1}
  Requests = {r1}
  MaxJobs = 2
  MaxCrashes = 1
  BatchSize = 2
  StaleAfter = 0
  Cooldown = 1
  NoPair = NoPair
INVARIANTS
  TypeOK
  SoleOwner
  ResultIsKept
  OneRecentSuccess
PROPERTIES
  ImplementsLifecycle
  QueuedJobsEnd
