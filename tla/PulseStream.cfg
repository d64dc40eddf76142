SPECIFICATION FairSpec
CONSTANTS
  Flows <- Both
  BufSize = 2
  Periods <- Rates
  Packets <- ThreePackets
  MaxFrames = 5
  MaxRecorded = 6
  Backlog = 2
  Rooms = {0, 1, 4}
INVARIANTS  CaptureExact
PROPERTIES Served
CHECK_DEADLOCK FALSE
