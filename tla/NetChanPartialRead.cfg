SPECIFICATION Spec
CONSTANTS
  Client = Client
  Server = Server
  m1 = m1
  m2 = m2
  m3 = m3
  f1 = f1
  Junk = Junk
  Garbled = Garbled
  Msg <- SomeMsgs
  Bytes <- MCThree
  Files <- MCf1
  ClearMsgs <- MCNone
  FailMsgs <- MCNone
  Outbox <- StreamsOutbox
  BackgroundModes <- MCModes
  NumSubChannels = 2
  MaxFragments = 2
  FragmentSize = 1
  MaxPayload = 8
  Compression = FALSE
  MinCompress = 3
  MaxSeq <- MCSeq24
  MaxClears <- MCClears00
  MaxChokes = 0
  MaxDelay = 1
INVARIANTS DroppedDataHandledOnce
CHECK_DEADLOCK FALSE

