SPECIFICATION Spec
CONSTANTS
  Paths = {p, q, r}
  Nowhere = Nowhere
  MaxTabs = 1
  MaxTexts = 1
  MaxChanges = 1
  Saves = {s1}
INVARIANTS TypeOK EditsAreSafe
CHECK_DEADLOCK FALSE
SYMMETRY Interchangeable
CONSTRAINT Few
