SPECIFICATION Spec
CONSTANTS
  Wrap = 8
  Loss = 4
  Slack = 1
  SlewFull = 6
  RisePerTick = 1
  FallPerTick = 4
  CoastPerTick = 1
  Sticks = {4, 100}
  RudderThrusts = {40}
  TailFull = 100
  TailCenter = 52
  TailCommands = {60}
  ImuPeriod = 1
  RampTicks = 2
  BlinkTicks = 1
  MpuOk = {FALSE, TRUE}
INVARIANT TypeOK
INVARIANT SilenceStopsMotors
INVARIANT ImuIsRead
INVARIANT GroundResetsStab
INVARIANT DarkMeansFit
PROPERTY LiveRiseIsBounded
