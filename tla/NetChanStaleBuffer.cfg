SPECIFICATION Spec
CONSTANTS
  Client = Client
  Server = Server
  m1 = m1
  m2 = m2
  m3 = m3
  f1 = f1
  Junk = Junk
  Garbled = Garbled
  Msg <- SomeMsgs
  Bytes <- MCBytes4
  Files <- MCNone
  ClearMsgs <- MCNone
  FailMsgs <- MCNone
  Outbox <- ClearOutbox2
  BackgroundModes <- MCModes
  NumSubChannels = 2
  MaxFragments = 1
  FragmentSize = 2
  MaxPayload = 8
  Compression = FALSE
  MinCompress = 3
  MaxSeq <- MCSeq43
  MaxClears <- MCClears01
  MaxChokes = 0
  MaxDelay = 1
INVARIANTS FragmentsOfOneItem
CHECK_DEADLOCK FALSE

