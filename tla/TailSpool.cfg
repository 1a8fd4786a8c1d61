SPECIFICATION Spec
CONSTANTS
  Wrap = 12
  Loss = 6
  Slack = 1
  SlewFull = 1
  RisePerTick = 1
  FallPerTick = 1
  CoastPerTick = 1
  Sticks = {0, 100}
  RudderThrusts = {0}
  TailFull = 100
  TailCenter = 52
  TailCommands = {60}
  ImuPeriod = 2
  RampTicks = 40
  BlinkTicks = 1
  MpuOk = {TRUE}
PROPERTY TailStartsFromOff
