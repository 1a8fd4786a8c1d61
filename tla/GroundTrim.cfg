SPECIFICATION Spec
CONSTANTS
  Axes = {x, z}
  Window = 3
  Spread = 2
  Limit = 3
  Motions <- MCMotions
  Offsets <- MCOffsets
SYMMETRY MCSymmetry
VIEW MCView
INVARIANT TypeOK
INVARIANT RestReadsZero
PROPERTY TrimNeedsStillGround
PROPERTY TrimErrorIsSmall
