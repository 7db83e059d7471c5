\* A target with a short alias and a long one, in every order.
SPECIFICATION MatchingSpec
CONSTANTS
  Letters = {"a", "b"}
  MaxLength = 2
  Maximum = 1
  Lengths = {3, 5}
  MaxAliases = 2
  Pending = Pending
CHECK_DEADLOCK FALSE
INVARIANTS
  ExactIsStrongest
