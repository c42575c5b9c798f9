--------------------------- MODULE MCSplitPacket ---------------------------
EXTENDS SplitPacket
CONSTANTS p1, p2, p3

MCPacket == {p1, p2, p3}
MCCount == [p \in MCPacket |-> IF p = p2 THEN 3 ELSE 2]
MCSize == [p \in MCPacket |-> IF p = p3 THEN 2 ELSE 1]
=============================================================================
