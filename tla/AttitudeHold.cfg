SPECIFICATION Spec
CONSTANTS
  Axes = {"roll"}
  Angles <- MCAngles
  Slews <- MCSlews
  Rates <- MCRates
  Dts = {1, 2}
  Leash = 2
  MaxAngle = 4
  AngleP = 1
  MaxRate = 3
  IntegralLimit = 2
  Gates = {0, 1}
  Relaxes = {1}
  Motors = {0, 1, 3}
  SpoolMax = 2
  Period = 3
INVARIANT TypeOK
INVARIANT ResetForgetsBank
INVARIANT WindupNeedsFlight
INVARIANT FlightsAreSeparate
PROPERTY DisturbanceKeepsBank
PROPERTY StickLeads
