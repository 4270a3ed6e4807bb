CONSTANTS
  n1 = n1
  n2 = n2
  Inspections = {n1, n2}
  i1 = i1
  Items = {i1}
  Kind <- AllChoices
  Answers <- OneFinding
  Browsers = {}
  p1 = p1
  Phones = {p1}
SPECIFICATION FormSpec
INVARIANT SavedForItsOwnInspection
CHECK_DEADLOCK FALSE
