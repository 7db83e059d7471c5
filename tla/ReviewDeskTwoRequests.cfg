\* Two consoles review at once, with sightings and settings changing under them.
SPECIFICATION Spec
CONSTANTS
  Candidates = {c1}
  Targets = {t1, t2}
  Requests = {r1, r2}
  MaxRules = 1
  MaxEvents = 3
  Global = Global
  NoTarget = NoTarget
  NoCandidate = NoCandidate
SYMMETRY DeskSymmetry
INVARIANTS
  TypeOK
  AuditTrailTells
PROPERTIES
  OnlyOvertakenMislead
  OnlyRecordedReturns
