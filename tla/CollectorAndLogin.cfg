\* Windows with refusals, interruptions and crashes; and two logins of three
\* peers at once, with room for two peers in the table.
SPECIFICATION BothSpec
CONSTANTS
  CommitEvery = 3
  MaxRefusals = 2
  MaxLosses = 2
  Peers = {k1, k2, k3}
  Logins = {l1, l2}
  Attempts = 2
  Window = 1
  LockTime = 2
  MaxEntries = 2
  Slots = 1
  NoPeer = NoPeer
INVARIANTS
  LossIsBounded
  StuckRunsAreFaults
  StatusIsLatest
  TrackedExactly
  LateChecksBounded
  SlotsBalanced
PROPERTIES
  LockIsLetGo
  WindowsGoOn
  StatusCatchesUp
  LockEndsOnlySo
  LockoutEnds
