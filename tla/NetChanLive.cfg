SPECIFICATION LiveSpec
CONSTANTS
  Client = Client
  Server = Server
  m1 = m1
  m2 = m2
  m3 = m3
  f1 = f1
  Junk = Junk
  Garbled = Garbled
  Msg <- SomeMsgs
  Bytes <- MCShort
  Files <- MCNone
  ClearMsgs <- MCNone
  FailMsgs <- MCNone
  Outbox <- LiveOutbox
  BackgroundModes <- MCModes
  NumSubChannels = 2
  MaxFragments = 1
  FragmentSize = 1
  MaxPayload = 8
  Compression = FALSE
  MinCompress = 3
  MaxSeq <- MCSeqLive
  MaxClears <- MCClears00
  MaxChokes = 0
  MaxDelay = 0
  MaxLosses = 2
  LastSend = 1
PROPERTIES AllArrives EventuallyIdle
CHECK_DEADLOCK FALSE
