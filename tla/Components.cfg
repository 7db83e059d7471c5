\* Six components, each with its own bounds, at which all but the page stop;
\* one of three processes that start on every kind of database is lost.
SPECIFICATION ComponentsSpec
CONSTANTS
  Searches = {"any", "alpha"}
  PageSizes = {1, 2}
  MaxSignals = 3
  MaxPage = 2
  Fetches = {f1, f2}
  Handlers = {r1, r2}
  MaxScore = 3
  MaxSightings = 3
  MaxReviews = 2
  Callers = {"test", "job"}
  Budget = 3
  MaxCalls = 3
  Letters = {"a", "b", "c"}
  MaxLength = 4
  Maximum = 1
  Lengths = {2, 3, 5, 6}
  MaxAliases = 2
  Pending = Pending
  Names = {b1}
  MaxWrites = 2
  MaxSeconds = 1
  Absent = Absent
  Damaged = Damaged
  NoFile = NoFile
  Processes = {p1, p2, p3}
  TableCount = 3
  MaxCrashes = 1
CHECK_DEADLOCK FALSE
INVARIANTS
  
  ProjectionIsDerived
  ProjectionIsBacked
  DispositionSurvives
  BudgetIsKept
  DistanceIsExact
  ScoreIgnoresOrder
  RunningIsReady
  SomeoneCreates
PROPERTIES
  ContentsAreWhole
  NothingIsLost
  NewerUntouched
  EveryoneStarts
