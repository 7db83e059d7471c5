\* Two console requests queue a pivot of one candidate at once.
SPECIFICATION Spec
CONSTANTS
  Candidates = {c1}
  Kinds = {urlscan}
  Workers = {w1}
  Requests = {r1, r2}
  MaxJobs = 2
  MaxCrashes = 0
  BatchSize = 2
  StaleAfter = 0
  Cooldown = 0
  NoPair = NoPair
INVARIANTS
  ManualDeduplicated
SYMMETRY RequestSymmetry
