SPECIFICATION MCSpec
CONSTANTS
  w1 = w1
  w2 = w2
  c1 = c1
  c2 = c2
  a = a
  b = b
  Shared = Shared
  NoJob = NoJob
  Nobody = Nobody
  Worker <- MCWorker
  Client <- MCClient
  Thread <- MCThread
  Queue <- MCQueue
  Job <- MCJob
  Kind <- MCKind
  Index <- MCIndex
  First = w1
  TopPriority = 1
  MaxBulk = 2
INVARIANTS TypeOK ExpectedItem CalledOnce RefsAddUp SuspendedStill CallsAlone
PROPERTIES JobsFinish JobsThere
CHECK_DEADLOCK FALSE
