\* The evidence of a closed dialog arrives in the next one.
SPECIFICATION Spec
CONSTANTS
  CandidateCount = 2
  Filters = {"potential"}
  PageSize = 2
  Slots = {s1, s2}
PROPERTIES
  ReviewIsOfShown
