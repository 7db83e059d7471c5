\* The handshake of a window times out.
SPECIFICATION CollectorSpec
CONSTANTS
  CommitEvery = 2
  MaxRefusals = 0
  MaxLosses = 0
INVARIANTS
  HealthyMeansListened
