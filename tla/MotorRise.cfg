SPECIFICATION Spec
CONSTANTS
  Wrap = 8
  Loss = 4
  Slack = 1
  SlewFull = 32
  RisePerTick = 2
  FallPerTick = 12
  CoastPerTick = 1
  Sticks = {0, 4, 100}
  RudderThrusts = {0, 40}
  TailFull = 100
  TailCenter = 52
  TailCommands = {60}
  ImuPeriod = 1
  RampTicks = 1
  BlinkTicks = 1
  MpuOk = {FALSE}
PROPERTY MotorRiseIsBounded
