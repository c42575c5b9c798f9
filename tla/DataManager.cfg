SPECIFICATION Spec
CONSTANTS
  Thread = {t1, t2}
  Item = {a, b}
  NoItem = NoItem
  InitialSize <- OneEach
  Sizes <- SizesMC
  Targets <- TargetsMC
  InitialTarget = 2
  PurgeSizes <- PurgeMC
  SerialMod = 4
  WordMod = 16
  MaxLocks = 1
  MaxTouches = 2
INVARIANTS TypeOK ListsAgree HandlesNeverAliased StorageOwned LocksProtect UsedIsTotal
PROPERTIES ImplementsPool
SYMMETRY Symmetry
