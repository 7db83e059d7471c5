\* Two workers claim and look up the same rows, before and after a crash.
SPECIFICATION Spec
CONSTANTS
  Candidates = {c1}
  Kinds = {urlscan}
  Workers = {w1, w2}
  Requests = {r1}
  MaxJobs = 2
  MaxCrashes = 1
  BatchSize = 2
  StaleAfter = 0
  Cooldown = 0
  NoPair = NoPair
SYMMETRY WorkerSymmetry
INVARIANTS
  ExclusiveClaim
  SingleExecution
