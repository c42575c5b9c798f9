----------------------------- MODULE MCNetChan -----------------------------
EXTENDS NetChan
CONSTANTS m1, m2, m3, f1

Lists(serverNormal, serverFile, clientNormal) ==
  [p \in Peer |-> [s \in Stream |-> IF p = Server
                                    THEN IF s = NORMAL THEN serverNormal ELSE serverFile
                                    ELSE IF s = NORMAL THEN clientNormal ELSE <<>>]]
ByPeer(client, server) == [p \in Peer |-> IF p = Server THEN server ELSE client]
SomeMsgs == {m1, m2, m3, f1}
MCBytes4 == [m \in SomeMsgs |-> IF m \in {m1, m2, f1} THEN 4 ELSE 1]
MCShort == [m \in SomeMsgs |-> IF m = m1 THEN 2 ELSE 1]
MCThree == [m \in SomeMsgs |-> IF m \in {f1, m3} THEN 3 ELSE 1]
ClearOutbox2 == Lists(<<m1, m2>>, <<>>, <<>>)
MCNone == {}
MCModes == {FALSE}
MCSingle == Lists(<<m1, m2, m3>>, <<>>, <<>>)
MCSeq24 == ByPeer(2, 4)
MCSeq43 == ByPeer(3, 4)
MCClears00 == ByPeer(0, 0)
MCClears01 == ByPeer(0, 1)
MCClears10 == ByPeer(1, 0)
StreamsOutbox == Lists(<<m1>>, <<f1>>, <<>>)
MixedOutbox == Lists(<<m1>>, <<f1, m3>>, <<m2>>)
LiveOutbox == Lists(<<m1, m2>>, <<>>, <<>>)
MCSeqLive == ByPeer(13, 13)
MCm2 == {m2}
MCf1 == {f1}
=============================================================================
