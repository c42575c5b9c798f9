SPECIFICATION Spec
CONSTANTS
  p1 = p1
  p2 = p2
  p3 = p3
  Nothing = Nothing
  Packet <- MCPacket
  Count <- MCCount
  SplitSize <- MCSize
  MaxSplits = 3
  SplitRate = 1
  MaxFaults = 3
INVARIANTS TypeOK CountsMissing DeliveredWhole NothingLost
CHECK_DEADLOCK FALSE
