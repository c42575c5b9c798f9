SPECIFICATION Spec
CONSTANTS
  t1 = t1
  t2 = t2
  t3 = t3
  End = End
  Null = Null
  Thread <- MCThread
  Budgets <- MCBudgets
  MaxCalls = 3
  MaxNodes = 6
INVARIANTS TypeOK ListWhole PoppedOnce NothingLost
PROPERTIES CallsReturn
CHECK_DEADLOCK FALSE
