SPECIFICATION Spec
CONSTANTS
  Client = Client
  Server = Server
  m1 = m1
  m2 = m2
  m3 = m3
  f1 = f1
  Junk = Junk
  Garbled = Garbled
  Msg <- SomeMsgs
  Bytes <- MCShort
  Files <- MCNone
  ClearMsgs <- MCNone
  FailMsgs <- MCNone
  Outbox <- MCSingle
  BackgroundModes <- MCModes
  NumSubChannels = 2
  MaxFragments = 1
  FragmentSize = 1
  MaxPayload = 4
  Compression = TRUE
  MinCompress = 2
  MaxSeq <- MCSeq24
  MaxClears <- MCClears00
  MaxChokes = 1
  MaxDelay = 2
INVARIANTS TypeOK BitsAgree PendingIsInFlight FragmentsOfOneItem
PROPERTIES ImplementsChannel
CHECK_DEADLOCK FALSE
