SPECIFICATION Spec
CONSTANTS
  Paths = {p, q}
  Nowhere = Nowhere
  MaxTabs = 1
  MaxTexts = 2
  MaxChanges = 0
  Saves = {s1}
INVARIANT TypingWhileSaving
CHECK_DEADLOCK FALSE
SYMMETRY Interchangeable
