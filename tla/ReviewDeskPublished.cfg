\* Two consoles review one candidate at once.
SPECIFICATION Spec
CONSTANTS
  Candidates = {c1}
  Targets = {t1}
  Requests = {r1, r2}
  MaxRules = 1
  MaxEvents = 2
  Global = Global
  NoTarget = NoTarget
  NoCandidate = NoCandidate
INVARIANT
  PublishedNotSuppressed
