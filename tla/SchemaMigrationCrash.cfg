\* A process is lost while it creates the first tables.
SPECIFICATION Spec
CONSTANTS
  Processes = {p1}
  TableCount = 3
  MaxCrashes = 1
INVARIANTS
  AllOrNothing
