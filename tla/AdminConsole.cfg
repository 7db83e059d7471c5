\* Two candidates on pages of one, a change of filter, two requests in flight.
SPECIFICATION Spec
CONSTANTS
  CandidateCount = 2
  Filters = {"closed"}
  PageSize = 1
  Slots = {s1, s2}
SYMMETRY SlotSymmetry
INVARIANTS
  OfferedMatchesSelected
  TableIsSound
  ButtonsComeBack
