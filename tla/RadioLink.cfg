SPECIFICATION Spec
CONSTANTS
  pilot = pilot
  other = other
  Transmitters <- MCTransmitters
  NoAddr = NoAddr
  HopCodeOf <- MCHopCodeOf
  Pilot = pilot
  PilotKinds = {"ch14"}
  Strays <- MCStrays
  Wrap = 19
  ChNum = 4
  Interval = 5
  Data2Offset = 1
  Window2nd = 1
  QuietLead = 2
  SignalLoss = 14
  FallbackCount = 2
  FifoPackets = 2
  MaxGap = 2
INVARIANT LinkTypeOK
INVARIANT SignalIsFresh
INVARIANT AgeIsTrue
INVARIANT ConnectedIsLive
INVARIANT QuietIsQuiet
INVARIANT CampIsMet
PROPERTY FlywheelKeepsStep
PROPERTY BondIsKept
PROPERTY HonoursContract
