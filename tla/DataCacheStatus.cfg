SPECIFICATION Spec
CONSTANTS
  Thread = {t1, t2}
  Item = {a, b}
  InitialSize <- OneEach
  NewSizes <- Two
  Target = 1
  MaxBytes = 2
  MaxItems = 2
  Slots = 1
  WordMod = 4
  MaxLocks = 1
  MaxDepth = 2
INVARIANTS SectionStatusCounts
CHECK_DEADLOCK FALSE
SYMMETRY Symmetry
