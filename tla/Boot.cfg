SPECIFICATION FairSpec
CONSTANTS
  HseBudget = 5
  ReadyPolls = 4
  CalTries = 4
  Chans = 2
  MaxReady = 2
  MaxCal = 5
  NoCal = NoCal
  Attempts = 5
  SettleSteps = 4
  Watchdog = 3
  MaxWake = 9
  MaxReset = 6
  Settings = {"gyro", "accel"}
  NoAddr = NoAddr
INVARIANT TypeOK
INVARIANT EveryChannelIsTuned
INVARIANT SlowWakeIsFound
INVARIANT ResetSparesSettings
INVARIANT RetriesAreFed
PROPERTY BootEnds
PROPERTY BootAdvances
