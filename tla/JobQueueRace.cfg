SPECIFICATION JSpec
CONSTANTS
  t1 = t1
  t2 = t2
  End = End
  Null = Null
  Thread <- MCThread
  Budgets <- MCBudgets
  MaxCalls = 3
  MaxNodes = 6
INVARIANTS ItemThere
CHECK_DEADLOCK FALSE
