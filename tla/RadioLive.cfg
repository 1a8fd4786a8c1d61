SPECIFICATION FairSpec
CONSTANTS
  pilot = pilot
  other = other
  Transmitters <- MCTransmitters
  NoAddr = NoAddr
  HopCodeOf <- MCHopCodeOf
  Pilot = pilot
  PilotKinds = {"ch14"}
  Strays <- NoStrays
  Wrap = 19
  ChNum = 3
  Interval = 5
  Data2Offset = 1
  Window2nd = 1
  QuietLead = 2
  SignalLoss = 14
  FallbackCount = 2
  FifoPackets = 1
  MaxGap = 2
PROPERTY LinkIsFound
