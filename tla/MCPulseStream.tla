--------------------------- MODULE MCPulseStream ----------------------------
EXTENDS PulseStream
Both == {"render", "capture"}
Rates == {1, 2}
ThreePackets == {1, 2, 3}
=============================================================================
